---- MODULE Spec2Model ----
(***************************************************************************)
(* ModbusController: the register access engine (controller.py) with its   *)
(* configuration model (config_loader.py) and converter helpers            *)
(* (data_converter.py).                                                    *)
(*                                                                         *)
(* The engine runs on one asyncio event loop: code between two suspension  *)
(* points is atomic.  `running` names the task that currently executes;    *)
(* a task gives the loop back only where the source awaits something that  *)
(* is not ready.                                                           *)
(***************************************************************************)
EXTENDS Integers, Sequences, FiniteSets, TLC

VARIABLES
    config,              \* self.config: [registers, max_registers_per_read]
    grouping_result,     \* last result of a stand-alone grouping call, or <<>>
    grouped,             \* TRUE once the stand-alone grouping call has run
    client,              \* self.client: "none" | "down" | "up" (object, .connected)
    _connection_lock,    \* asyncio.Lock: [holder, waiters]
    _rate_limiter,       \* asyncio.Semaphore(1): [holder, waiters]
    _monitoring_active,  \* self._monitoring_active
    _monitoring_task,    \* self._monitoring_task: a monitor task or NoTask
    _last_values,        \* self._last_values: name -> value or NoValue
    _last_read_time,     \* self._last_read_time: name -> time or NoTime
    now,                 \* datetime.now()
    pc,                  \* position of every task
    stack,               \* return labels of the calls a task is inside
    running,             \* the task the event loop is executing, or NoTask
    cancel_req,          \* Task.cancel() was called and not yet delivered
    awaiting,            \* the task a stop_monitoring call awaits
    grp,                 \* group argument of the _read_register_group call
    todo,                \* groups a read_all / loop iteration has still to read
    res,                 \* results of the last group read: name -> value
    all_results,         \* all_results of a read_all call: name -> value
    before,              \* history: cache as it was when that read's response arrived
    fired,               \* callback invocations of the last results processed
    callback_errors,     \* names whose callback invocation raised, of the same results
    callback,            \* whether the monitor task was started with a callback
    wargs,               \* write_register arguments: [name, value]
    last,                \* the call that has just returned to its caller
    inScope,             \* the caller is inside `async with controller`
    closed,              \* history: close() was called since the caller entered its scope
    stale,               \* history: tasks whose call was under way when a disconnect() returned
    scenario,            \* the workload: which calls each caller makes, what the device does
    txCount,             \* history: transport transactions of the current group read/write
    reconnects,          \* history: connect() calls made by its _ensure_connected
    unspaced,            \* history: a transaction ended and its spacing wait has not
    liveConns,           \* history: transport connections opened and not closed/lost
    wire,                \* history: transactions of the current group read/write
    request,             \* arguments of a stand-alone conversion, or NoRequest
    encoded,             \* what its encoding gave: a result, or NotRun
    decoded,             \* what decoding its words gave: a result, or NotRun
    echoed,              \* what decoding the encoded words gave: a result, or NotRun
    loaded               \* what loading a configuration gave: a result, or NotRun

\* ------------------------------------------------------------------ bounds
NumCallers == 2         \* concurrent foreground callers
NumMons == 2            \* polling tasks that can exist at once
MaxRegs == 3            \* registers in a grouping input
MaxAddrOffset == 3      \* addresses BaseAddress .. BaseAddress + MaxAddrOffset
MaxLimit == 4           \* max_registers_per_read in 1 .. MaxLimit
StrLen == 3             \* length (words) of the string registers
BaseAddress == 100      \* first device address used
MaxChars == 4           \* characters of a text given to the converter
MaxWords == 4           \* `length` (words) asked of the converter for a text
MaxRegisters == 3       \* words of a list given to the converter for decoding
MaxEntries == 2         \* register entries of a configuration document
MaxTime == 3            \* seconds the wall clock runs
PollInterval == 2       \* poll_interval (seconds) of the polled registers

\* ------------------------------------------------ configuration model
\* RegisterConfig, config_loader.py:44-57.  length = 0 stands for None,
\* poll_interval <<>> stands for None (not auto-polled), <<p>> for p seconds.
\* byte_order, scale_factor and offset have their defaults ("big", None, None).
Reg(n, a, t, l, fc, pi) ==
    [name |-> n, address |-> a, type |-> t, length |-> l,
     function_code |-> fc, poll_interval |-> pi,
     byte_order |-> "big", scale_factor |-> <<"none", 0, 0>>, offset |-> <<"none", 0, 0>>]

\* the register with "scale_factor" and "offset" configured (floats, or None)
Scaled(reg, scale_factor, offset) ==
    [reg EXCEPT !.scale_factor = scale_factor, !.offset = offset]

\* the register with "byte_order" configured
WithOrder(reg, byte_order) == [reg EXCEPT !.byte_order = byte_order]

\* ModbusDataConverter.get_register_count, data_converter.py:290-310
get_register_count(data_type, length) ==
    IF data_type \in {"uint16", "int16"} THEN 1
    ELSE IF data_type \in {"uint32", "int32", "float32"} THEN 2
    ELSE length

\* on-wire footprint of one register, as every caller computes it
wordCount(reg) == get_register_count(reg.type, reg.length)

\* --------------------------------------------------- grouping algorithm
\* sorted(registers, key=lambda r: r.address): Python's sort is stable, so a
\* register goes behind every register already placed whose address is <= its own.
RECURSIVE InsertByAddress(_, _)
InsertByAddress(reg, s) ==
    IF s = <<>> THEN <<reg>>
    ELSE IF Head(s).address <= reg.address
         THEN <<Head(s)>> \o InsertByAddress(reg, Tail(s))
         ELSE <<reg>> \o s

RECURSIVE sorted_by_address(_)
sorted_by_address(registers) ==
    IF registers = <<>> THEN <<>>
    ELSE InsertByAddress(registers[Len(registers)],
                         sorted_by_address(SubSeq(registers, 1, Len(registers) - 1)))

\* faulty variant of FitsGroup: a register that fills the group exactly is refused
FitsGroupStrict(current_group, reg, max_regs) ==
    LET last_reg   == current_group[Len(current_group)]
        last_end   == last_reg.address + wordCount(last_reg)
        total_size == reg.address - current_group[1].address + wordCount(reg)
    IN  reg.address = last_end /\ total_size < max_regs

\* faulty variant of FitsGroup: a register joins the group across a gap
FitsGroupGap(current_group, reg, max_regs) ==
    LET last_reg   == current_group[Len(current_group)]
        last_end   == last_reg.address + wordCount(last_reg)
        total_size == reg.address - current_group[1].address + wordCount(reg)
    IN  reg.address >= last_end /\ total_size <= max_regs

\* the test of controller.py:156, "consecutive and within the limit"
FitsGroup(current_group, reg, max_regs) ==
    LET last_reg   == current_group[Len(current_group)]
        last_end   == last_reg.address + wordCount(last_reg)
        total_size == reg.address - current_group[1].address + wordCount(reg)
    IN  reg.address = last_end /\ total_size <= max_regs

\* the for loop of controller.py:148-160 from position i on, with the groups
\* closed so far and the group being built
RECURSIVE GroupLoop(_, _, _, _, _)
GroupLoop(sorted_regs, i, groups, current_group, max_regs) ==
    IF i > Len(sorted_regs) THEN Append(groups, current_group)
    ELSE IF FitsGroup(current_group, sorted_regs[i], max_regs)
         THEN GroupLoop(sorted_regs, i + 1, groups,
                        Append(current_group, sorted_regs[i]), max_regs)
         ELSE GroupLoop(sorted_regs, i + 1, Append(groups, current_group),
                        <<sorted_regs[i]>>, max_regs)

\* faulty variant of _group_consecutive_registers: every register is a group
\* of its own, in the order of the list given
groups_in_given_order(registers, max_regs) ==
    [i \in DOMAIN registers |-> <<registers[i]>>]

\* ModbusController._group_consecutive_registers, controller.py:133-163
_group_consecutive_registers(registers, max_regs) ==
    IF registers = <<>> THEN <<>>
    ELSE LET sorted_regs == sorted_by_address(registers)
         IN  GroupLoop(sorted_regs, 2, <<>>, <<sorted_regs[1]>>, max_regs)


\* ------------------------------------------------------------- the tasks
Callers == {<<"caller", i>> : i \in 1..NumCallers}
Mons    == {<<"monitor", i>> : i \in 1..NumMons}
Tasks   == Callers \cup Mons
NoTask  == <<"none", 0>>

\* values a one-word register of the device may hold
Values == {10, 12}

\* the calls of the engine's public surface
OpNames == {"connect", "disconnect", "read_register", "read_all", "write_register",
            "start_monitoring", "stop_monitoring", "scope"}

\* caller t makes calls of this kind in the current workload
Does(t, op) == op \in scenario.ops[t]

\* dict.get(name): <<>> stands for None, <<v>> for the value v
Get(d, name) == IF name \in DOMAIN d THEN <<d[name]>> ELSE <<>>

\* an empty dict
EmptyDict == [n \in {} |-> 0]

\* the catalog of the engine runs: "a" is polled on every tick of the monitoring
\* loop (poll_interval 0), "b" is not auto-polled; they are not adjacent
EngineRegisters ==
    << Reg("a", BaseAddress, "uint16", 0, 3, <<0>>),
       Reg("b", BaseAddress + 2, "uint16", 0, 4, <<>>) >>

EngineConfig == [registers |-> EngineRegisters, max_registers_per_read |-> MaxLimit]

Names == {config.registers[i].name : i \in DOMAIN config.registers}

\* faulty variant of _get_registers_by_name: an unknown name gets the first register
first_register_by_name(name) ==
    LET found == {j \in DOMAIN config.registers : config.registers[j].name = name}
        i == IF found = {} THEN 1 ELSE CHOOSE j \in found : \A k \in found : j <= k
    IN  <<"ok", config.registers[i]>>

\* ModbusController._get_registers_by_name, controller.py:126-131: the first
\* register of that name in catalog order, or ConfigurationError
_get_registers_by_name(name) ==
    LET found == {j \in DOMAIN config.registers : config.registers[j].name = name}
    IN  IF found = {} THEN <<"raise", "ConfigurationError">>
        ELSE <<"ok", config.registers[CHOOSE j \in found : \A k \in found : j <= k]>>

\* ----------------------------------------------- asyncio lock / semaphore
FreeLock == [holder |-> NoTask, waiters |-> <<>>]

\* faulty variant of Acquired: the newcomer takes a lock that is held
AcquiredAlways(l, t) == [l EXCEPT !.holder = t]

\* acquire(): taken at once when free, else the task queues (FIFO)
Acquired(l, t) ==
    IF l.holder = NoTask THEN [l EXCEPT !.holder = t]
    ELSE [l EXCEPT !.waiters = Append(@, t)]

\* faulty variant of Released: the holder leaves and wakes nobody
ReleasedToNobody(l, t) ==
    IF l.holder = t THEN [l EXCEPT !.holder = NoTask]
    ELSE [l EXCEPT !.waiters = SelectSeq(@, LAMBDA x : x # t)]

\* release() by the holder wakes the first waiter, which then owns it; a task
\* that leaves while queued (cancellation) is taken out of the queue
Released(l, t) ==
    IF l.holder = t
    THEN IF l.waiters = <<>> THEN FreeLock
         ELSE [holder |-> Head(l.waiters), waiters |-> Tail(l.waiters)]
    ELSE [l EXCEPT !.waiters = SelectSeq(@, LAMBDA x : x # t)]

\* ------------------------------------------------------- control helpers
NoCall == [op |-> "none", out |-> "none", exc |-> "none"]

\* controller.py:418, logger.error(f"Error en monitorización: {e}"): the polling
\* task has logged exception e and sleeps in its handler
Logged(e) == [op |-> "_monitoring_loop", out |-> "logged", exc |-> e]

\* the task executes at label l (it has the loop)
At(t, l) == pc[t] = l /\ running = t

\* the task is suspended at label l and the loop resumes it normally
Wake(t, l) == pc[t] = l /\ running = NoTask /\ ~cancel_req[t]

Alive(m) == pc[m] # "dead"

\* return from the innermost call: to the label on the stack, or to the caller's
\* own code when the call was a top-level one
RetLabel(t) == IF stack[t] = <<>> THEN "idle" ELSE Head(stack[t])

Returned(t) ==
    /\ running' = t
    /\ stack' = [stack EXCEPT ![t] = IF @ = <<>> THEN @ ELSE Tail(@)]
    /\ last' = [last EXCEPT ![t].out = IF stack[t] = <<>> THEN "ok" ELSE @]

Return(t) ==
    /\ pc' = [pc EXCEPT ![t] = RetLabel(t)]
    /\ Returned(t)

\* the per-call bookkeeping of a task that has left its call
Cleared(f, t, v) == [f EXCEPT ![t] = v]

\* faulty variant of Unwind: _monitoring_loop has no `except Exception`, the
\* exception ends the polling task
UnwindUncaught(t, e) ==
    /\ stack' = [stack EXCEPT ![t] = <<>>]
    /\ grp' = Cleared(grp, t, <<>>)
    /\ todo' = Cleared(todo, t, <<>>)
    /\ pc' = [pc EXCEPT ![t] = IF t \in Callers THEN "idle" ELSE "dead"]
    /\ running' = IF t \in Callers THEN t ELSE NoTask
    /\ last' = [last EXCEPT ![t].out = "raised", ![t].exc = e]
    /\ txCount' = IF t \in Callers THEN txCount ELSE Cleared(txCount, t, 0)
    /\ wire' = IF t \in Callers THEN wire ELSE Cleared(wire, t, <<>>)
    /\ reconnects' = IF t \in Callers THEN reconnects ELSE Cleared(reconnects, t, 0)

\* an exception of class e leaves every frame of the task: a caller gets it from its
\* top-level call; in the polling task it reaches `except Exception` of
\* _monitoring_loop (controller.py:417-419), which logs it and sleeps one second
Unwind(t, e) ==
    /\ stack' = [stack EXCEPT ![t] = <<>>]
    /\ grp' = Cleared(grp, t, <<>>)
    /\ todo' = Cleared(todo, t, <<>>)
    /\ IF t \in Callers
       THEN /\ pc' = [pc EXCEPT ![t] = "idle"]
            /\ running' = t
            /\ last' = [last EXCEPT ![t].out = "raised", ![t].exc = e]
            /\ UNCHANGED <<txCount, wire, reconnects>>
       ELSE /\ pc' = [pc EXCEPT ![t] = "loop_err"]
            /\ running' = NoTask
            /\ last' = [last EXCEPT ![t] = Logged(e)]
            /\ txCount' = Cleared(txCount, t, 0)
            /\ wire' = Cleared(wire, t, <<>>)
            /\ reconnects' = Cleared(reconnects, t, 0)

Call(t, target, ret) ==
    /\ pc' = [pc EXCEPT ![t] = target]
    /\ stack' = [stack EXCEPT ![t] = <<ret>> \o @]
    /\ running' = t

Goto(t, l, yield) ==
    /\ pc' = [pc EXCEPT ![t] = l]
    /\ running' = IF yield THEN NoTask ELSE t

engineVars == <<client, _connection_lock, _rate_limiter, _monitoring_active,
                _monitoring_task, _last_values, _last_read_time, now>>
localVars  == <<cancel_req, awaiting, grp, todo, res, all_results, before, fired, callback_errors, callback,
                wargs, inScope, closed, stale>>
histVars   == <<txCount, wire, reconnects, unspaced, liveConns>>
pureVars   == <<request, encoded, decoded, echoed, loaded>>
fixedVars  == <<config, grouping_result, grouped, scenario, pureVars>>
vars == <<config, grouping_result, grouped, client, _connection_lock, _rate_limiter,
          _monitoring_active, _monitoring_task, _last_values, _last_read_time,
          now, pc, stack, running, cancel_req, awaiting, grp, todo, res, all_results, before,
          fired, callback_errors, callback, wargs, last, inScope, closed, stale, scenario, txCount, wire, reconnects,
          unspaced, liveConns, request, encoded, decoded, echoed, loaded>>

\* ----------------------------------------------------------------- Init
\* ModbusController.__init__, controller.py:47-55
EngineInit ==
    /\ client = "none"
    /\ _connection_lock = FreeLock
    /\ _rate_limiter = FreeLock
    /\ _monitoring_active = FALSE
    /\ _monitoring_task = NoTask
    /\ _last_values = EmptyDict
    /\ _last_read_time = EmptyDict
    /\ now = 0
    /\ pc = [t \in Tasks |-> IF t \in Callers THEN "idle" ELSE "dead"]
    /\ stack = [t \in Tasks |-> <<>>]
    /\ running = NoTask
    /\ cancel_req = [t \in Tasks |-> FALSE]
    /\ awaiting = [t \in Tasks |-> NoTask]
    /\ grp = [t \in Tasks |-> <<>>]
    /\ todo = [t \in Tasks |-> <<>>]
    /\ res = [t \in Tasks |-> EmptyDict]
    /\ all_results = [t \in Tasks |-> EmptyDict]
    /\ before = [t \in Tasks |-> EmptyDict]
    /\ fired = [t \in Tasks |-> {}]
    /\ callback_errors = [t \in Tasks |-> {}]
    /\ callback = [t \in Tasks |-> FALSE]
    /\ wargs = [t \in Tasks |-> <<>>]
    /\ last = [t \in Tasks |-> NoCall]
    /\ inScope = [t \in Tasks |-> FALSE]
    /\ closed = [t \in Tasks |-> FALSE]
    /\ stale = {}
    /\ txCount = [t \in Tasks |-> 0]
    /\ wire = [t \in Tasks |-> <<>>]
    /\ reconnects = [t \in Tasks |-> 0]
    /\ unspaced = FALSE
    /\ liveConns = 0
    /\ grouping_result = <<>>
    /\ grouped = FALSE
    /\ encoded = <<"idle", 0>>
    /\ decoded = <<"idle", 0>>
    /\ echoed = <<"idle", 0>>
    /\ loaded = <<"idle", 0>>

\* ------------------------------------------------------ the transport
\* what the transport may answer to a transaction on the registers of `group`:
\* a good response, an error response, or it raises; a device that rejects one
\* of the registers always answers with an error response, and a reliable
\* transport otherwise always with a good one
Answers(group) ==
    IF \E i \in DOMAIN group : group[i].name \in scenario.rejects
    THEN {"error_response"}
    ELSE IF scenario.reliable THEN {"ok"}
    ELSE {"ok", "error_response", "exception"}

\* what client.connected may be after the transport's connect()
ConnectAnswers == IF scenario.reliable THEN {TRUE} ELSE BOOLEAN

\* ------------------------------------------------------ connect, disconnect
\* connect(), controller.py:70: async with self._connection_lock
connect(t) ==
    /\ At(t, "connect")
    /\ _connection_lock' = Acquired(_connection_lock, t)
    /\ IF _connection_lock.holder = NoTask
       THEN Goto(t, "connect_locked", FALSE)
       ELSE Goto(t, "connect_wait", TRUE)
    /\ UNCHANGED <<client, _rate_limiter, _monitoring_active, _monitoring_task,
                   _last_values, _last_read_time, now, stack, last>>
    /\ UNCHANGED <<localVars, histVars, fixedVars>>

connect_wait(t) ==
    /\ Wake(t, "connect_wait")
    /\ _connection_lock.holder = t
    /\ Goto(t, "connect_locked", FALSE)
    /\ UNCHANGED <<engineVars, stack, last, localVars, histVars, fixedVars>>

\* faulty variant of AlreadyConnected: connect() never sees the open client
NeverConnected == FALSE

\* controller.py:71: self.client and self.client.connected
AlreadyConnected == client = "up"

\* controller.py:71-99: no-op when a connected client is held, else a new
\* client object is built and the transport is asked to connect
connect_locked(t) ==
    /\ At(t, "connect_locked")
    /\ IF AlreadyConnected
       THEN /\ _connection_lock' = Released(_connection_lock, t)
            /\ Return(t)
            /\ UNCHANGED client
       ELSE /\ client' = "down"
            /\ Goto(t, "connect_io", TRUE)
            /\ UNCHANGED <<_connection_lock, stack, last>>
    /\ UNCHANGED <<_rate_limiter, _monitoring_active, _monitoring_task,
                   _last_values, _last_read_time, now>>
    /\ UNCHANGED <<localVars, histVars, fixedVars>>

\* controller.py:99-108: the transport's connect() has ended; it connected, or it
\* reports not-connected or raised, and then connect() raises ConnectionError
\* (which also leaves a read/write that was reconnecting, releasing its gate)
connect_io(t) ==
    /\ Wake(t, "connect_io")
    /\ _connection_lock' = Released(_connection_lock, t)
    /\ \E connected \in ConnectAnswers :
         IF connected
         THEN /\ client' = "up"
              /\ liveConns' = liveConns + 1
              /\ Return(t)
              /\ UNCHANGED <<_rate_limiter, grp, todo, txCount, wire, reconnects>>
         ELSE /\ _rate_limiter' = Released(_rate_limiter, t)
              /\ Unwind(t, "ConnectionError")
              /\ UNCHANGED <<client, liveConns>>
    /\ UNCHANGED <<_monitoring_active, _monitoring_task, _last_values,
                   _last_read_time, now>>
    /\ UNCHANGED <<cancel_req, awaiting, res, all_results, before, fired, callback_errors, callback, wargs,
                   inScope, closed, stale, unspaced, fixedVars>>

\* faulty variant of _ensure_connected: the client is taken as it is
_ensure_connected_skipped(t, next) ==
    /\ Goto(t, next, FALSE)
    /\ UNCHANGED <<stack, reconnects>>

\* _ensure_connected(), controller.py:120-124, followed by the caller's next label
_ensure_connected(t, next) ==
    /\ reconnects' = [reconnects EXCEPT ![t] = IF client = "up" THEN @ ELSE @ + 1]
    /\ IF client = "up" THEN Goto(t, next, FALSE) /\ UNCHANGED stack
                        ELSE Call(t, "connect", next)

\* disconnect(), controller.py:112: await self.stop_monitoring()
disconnect(t) ==
    /\ At(t, "disconnect")
    /\ Call(t, "stop_monitoring", "disc_lock")
    /\ UNCHANGED <<engineVars, last, localVars, histVars, fixedVars>>

\* controller.py:114: async with self._connection_lock
disc_lock(t) ==
    /\ At(t, "disc_lock")
    /\ _connection_lock' = Acquired(_connection_lock, t)
    /\ IF _connection_lock.holder = NoTask
       THEN Goto(t, "disc_locked", FALSE)
       ELSE Goto(t, "disc_wait", TRUE)
    /\ UNCHANGED <<client, _rate_limiter, _monitoring_active, _monitoring_task,
                   _last_values, _last_read_time, now, stack, last>>
    /\ UNCHANGED <<localVars, histVars, fixedVars>>

disc_wait(t) ==
    /\ Wake(t, "disc_wait")
    /\ _connection_lock.holder = t
    /\ Goto(t, "disc_locked", FALSE)
    /\ UNCHANGED <<engineVars, stack, last, localVars, histVars, fixedVars>>

\* controller.py:115-118: close the transport and forget the client
disc_locked(t) ==
    /\ At(t, "disc_locked")
    /\ client' = "none"
    /\ closed' = IF client # "none" THEN [x \in Tasks |-> TRUE] ELSE closed
    /\ stale' = stale \cup {u \in Tasks \ {t} : pc[u] \notin {"idle", "dead"}}
    /\ liveConns' = IF client = "up" THEN liveConns - 1 ELSE liveConns
    /\ _connection_lock' = Released(_connection_lock, t)
    /\ Return(t)
    /\ UNCHANGED <<_rate_limiter, _monitoring_active, _monitoring_task,
                   _last_values, _last_read_time, now>>
    /\ UNCHANGED <<cancel_req, awaiting, grp, todo, res, all_results, before, fired, callback_errors, callback,
                   wargs, inScope>>
    /\ UNCHANGED <<txCount, wire, reconnects, unspaced, fixedVars>>

\* the transport loses the connection: client.connected turns False
ConnectionLost ==
    /\ scenario.lossy
    /\ running = NoTask
    /\ client = "up"
    /\ client' = "down"
    /\ liveConns' = liveConns - 1
    /\ UNCHANGED <<_connection_lock, _rate_limiter, _monitoring_active,
                   _monitoring_task, _last_values, _last_read_time, now>>
    /\ UNCHANGED <<pc, stack, running, last, localVars, txCount, wire, reconnects,
                   unspaced, fixedVars>>


\* ------------------------------------------------------------- converter
\* Python values of the converter's interface, each a triple whose first field
\* is the Python type:
\*   <<"int", hi, lo>>     the int hi * 0x10000 + lo with 0 <= lo < 0x10000 (ints
\*                         are unbounded in Python; the pair keeps 32-bit values
\*                         and their neighbours exact)
\*   <<"float", t, 0>>     the float t / 10
\*   <<"single", hi, lo>>  the float whose IEEE-754 single pattern is hi:lo, for
\*                         the patterns Float32Table does not list
\*   <<"str", chars, 0>>   the str with these code points
\*   <<"none", 0, 0>>      None
WordBase == 65536       \* 0x10000
SignBit == 32768        \* 0x8000
ByteBase == 256         \* 1 << 8
AsciiLimit == 128       \* first code point the ascii codec does not know
Space == 32             \* b' '
Nul == 0                \* '\x00'

PyPair(hi, lo) == <<"int", hi, lo>>
PyInt(n)    == PyPair(n \div WordBase, n % WordBase)
Float(t)    == <<"float", t, 0>>
Single(hi, lo) == <<"single", hi, lo>>
Str(chars)  == <<"str", chars, 0>>
None        == <<"none", 0, 0>>

\* isinstance(value, int), isinstance(value, (int, float)), isinstance(value, str)
IsInt(value)    == value[1] = "int"
IsNumber(value) == value[1] \in {"int", "float", "single"}
IsStr(value)    == value[1] = "str"

\* a < b, a + b on ints
Less(a, b) == a[2] < b[2] \/ (a[2] = b[2] /\ a[3] < b[3])
Plus(a, b) == PyPair(a[2] + b[2] + ((a[3] + b[3]) \div WordBase), (a[3] + b[3]) % WordBase)

\* (w0 << 16) | w1 for two register words
ShiftOr(w0, w1) == PyPair(w0, w1)
\* (value >> 16) & 0xFFFF and value & 0xFFFF
HighWord(value) == value[2] % WordBase
LowWord(value)  == value[3]
\* an int that fits one register, as the word it is
Word(value) == value[2] * WordBase + value[3]

\* what a call gives back: a value, or the class of the exception it raised
Ok(v)     == <<"ok", v>>
Raised(e) == <<"raise", e>>
IsOk(r)   == r[1] = "ok"

\* struct.pack('>f', x) / struct.unpack('>f', b) on the floats used here:
\* <<tenths, high half, low half>>
Float32Table ==
    { <<0, 0, 0>>, <<5, 16128, 0>>, <<10, 16256, 0>>, <<-10, 49024, 0>>,
      <<100, 16672, 0>>, <<120, 16704, 0>>, <<225, 16820, 0>>,
      <<2250, 17249, 0>>, <<2565, 17280, 16384>> }

\* float(value)
ToFloat(value) == IF IsInt(value) THEN Float(10 * Word(value)) ELSE value

\* struct.pack('>f', x) as its two 16-bit halves
pack_f(x) ==
    IF x[1] = "single" THEN <<x[2], x[3]>>
    ELSE LET row == CHOOSE r \in Float32Table : r[1] = x[2] IN <<row[2], row[3]>>

\* struct.unpack('>f', bytes)
unpack_f(hi, lo) ==
    IF \E r \in Float32Table : r[2] = hi /\ r[3] = lo
    THEN Float((CHOOSE r \in Float32Table : r[2] = hi /\ r[3] = lo)[1])
    ELSE Single(hi, lo)

\* registers_to_uint16, data_converter.py:15-27
registers_to_uint16(registers) ==
    IF Len(registers) # 1 THEN Raised("DataConversionError")
    ELSE Ok(PyInt(registers[1]))

\* registers_to_int16, data_converter.py:30-47
registers_to_int16(registers) ==
    IF Len(registers) # 1 THEN Raised("DataConversionError")
    ELSE LET value == PyInt(registers[1])
         IN  IF ~Less(value, PyInt(SignBit))
             THEN Ok(Plus(value, PyInt(-WordBase)))
             ELSE Ok(value)

\* faulty variant of registers_to_uint32: the word order is ignored
registers_to_uint32_big(registers, byte_order) ==
    IF Len(registers) # 2 THEN Raised("DataConversionError")
    ELSE Ok(ShiftOr(registers[1], registers[2]))

\* registers_to_uint32, data_converter.py:50-67
registers_to_uint32(registers, byte_order) ==
    IF Len(registers) # 2 THEN Raised("DataConversionError")
    ELSE IF byte_order = "big"
         THEN Ok(ShiftOr(registers[1], registers[2]))
         ELSE Ok(ShiftOr(registers[2], registers[1]))

\* faulty variant of registers_to_int32: the sign adjustment is left out
registers_to_int32_unsigned(registers, byte_order) ==
    registers_to_uint32(registers, byte_order)

\* registers_to_int32, data_converter.py:70-88
registers_to_int32(registers, byte_order) ==
    IF Len(registers) # 2 THEN Raised("DataConversionError")
    ELSE LET value == registers_to_uint32(registers, byte_order)[2]
         IN  IF ~Less(value, PyPair(SignBit, 0))
             THEN Ok(Plus(value, PyPair(-WordBase, 0)))
             ELSE Ok(value)

\* registers_to_float32, data_converter.py:91-115
registers_to_float32(registers, byte_order) ==
    IF Len(registers) # 2 THEN Raised("DataConversionError")
    ELSE IF byte_order = "big"
         THEN Ok(unpack_f(registers[1], registers[2]))
         ELSE Ok(unpack_f(registers[2], registers[1]))

\* the bytes of the words, high byte first (data_converter.py:134-138)
RECURSIVE BytesOf(_)
BytesOf(registers) ==
    IF registers = <<>> THEN <<>>
    ELSE << (Head(registers) \div ByteBase) % ByteBase, Head(registers) % ByteBase >>
         \o BytesOf(Tail(registers))

\* what the ascii codec keeps under errors='ignore'
IsAscii(b) == b < AsciiLimit

\* str.rstrip('\x00 ')
RECURSIVE rstrip(_)
rstrip(chars) ==
    IF chars # <<>> /\ chars[Len(chars)] \in {Nul, Space}
    THEN rstrip(SubSeq(chars, 1, Len(chars) - 1))
    ELSE chars

\* registers_to_string, data_converter.py:118-143
registers_to_string(registers) ==
    IF registers = <<>> THEN Raised("DataConversionError")
    ELSE Ok(Str(rstrip(SelectSeq(BytesOf(registers), IsAscii))))

\* faulty variant of Fitted: the text is padded and never cut
Unfitted(bytes_data, target_bytes) ==
    IF Len(bytes_data) < target_bytes
    THEN bytes_data \o [i \in 1..(target_bytes - Len(bytes_data)) |-> Space]
    ELSE bytes_data

\* bytes.ljust(target, b' ') and bytes[:target] (data_converter.py:216-221)
Fitted(bytes_data, target_bytes) ==
    IF Len(bytes_data) < target_bytes
    THEN bytes_data \o [i \in 1..(target_bytes - Len(bytes_data)) |-> Space]
    ELSE SubSeq(bytes_data, 1, target_bytes)

\* the words of an even number of bytes (data_converter.py:228-232)
PackBytes(bytes_data) ==
    [i \in 1..(Len(bytes_data) \div 2) |->
        bytes_data[2 * i - 1] * ByteBase + bytes_data[2 * i]]

\* the two words of a 32-bit pattern in the given order
\* (data_converter.py:176-179, 187-190, 197-206)
Ordered(high, low, byte_order) ==
    IF byte_order = "big" THEN <<high, low>> ELSE <<low, high>>

\* isinstance(value, int) and lowest <= value <= highest
\* (data_converter.py:161, 166, 174, 182)
InRange(value, lowest, highest) ==
    IsInt(value) /\ ~Less(value, lowest) /\ ~Less(highest, value)

\* faulty variant of Unsigned: negative values are stored as they are
Unadjusted(value, modulus) == value

\* value + modulus if value < 0 (data_converter.py:169-170, 185-186)
Unsigned(value, modulus) ==
    IF Less(value, PyInt(0)) THEN Plus(value, modulus) ELSE value

\* value_to_registers, data_converter.py:146-242; length = 0 stands for None
value_to_registers(value, data_type, byte_order, length) ==
    CASE data_type = "uint16" ->
           IF ~InRange(value, PyInt(0), PyPair(0, WordBase - 1))
           THEN Raised("DataConversionError")
           ELSE Ok(<<Word(value)>>)
      [] data_type = "int16" ->
           IF ~InRange(value, PyInt(-SignBit), PyInt(SignBit - 1))
           THEN Raised("DataConversionError")
           ELSE Ok(<<Word(Unsigned(value, PyInt(WordBase)))>>)
      [] data_type = "uint32" ->
           IF ~InRange(value, PyInt(0), PyPair(WordBase - 1, WordBase - 1))
           THEN Raised("DataConversionError")
           ELSE Ok(Ordered(HighWord(value), LowWord(value), byte_order))
      [] data_type = "int32" ->
           IF ~InRange(value, PyPair(-SignBit, 0), PyPair(SignBit - 1, WordBase - 1))
           THEN Raised("DataConversionError")
           ELSE LET u == Unsigned(value, PyPair(WordBase, 0))
                IN  Ok(Ordered(HighWord(u), LowWord(u), byte_order))
      [] data_type = "float32" ->
           IF ~IsNumber(value) THEN Raised("DataConversionError")
           ELSE LET bytes_data == pack_f(ToFloat(value))
                IN  Ok(Ordered(bytes_data[1], bytes_data[2], byte_order))
      [] data_type = "string" ->
           IF ~IsStr(value) THEN Raised("DataConversionError")
           ELSE LET bytes_data == SelectSeq(value[2], IsAscii)
                    fitted  == IF length # 0 THEN Fitted(bytes_data, length * 2)
                               ELSE bytes_data
                    even    == IF Len(fitted) % 2 # 0 THEN Append(fitted, Space)
                               ELSE fitted
                IN  Ok(PackBytes(even))
      [] OTHER -> Raised("DataConversionError")

\* convert_from_registers, data_converter.py:245-270
convert_from_registers(registers, data_type, byte_order) ==
    CASE data_type = "uint16"  -> registers_to_uint16(registers)
      [] data_type = "int16"   -> registers_to_int16(registers)
      [] data_type = "uint32"  -> registers_to_uint32(registers, byte_order)
      [] data_type = "int32"   -> registers_to_int32(registers, byte_order)
      [] data_type = "float32" -> registers_to_float32(registers, byte_order)
      [] data_type = "string"  -> registers_to_string(registers)
      [] OTHER -> Raised("DataConversionError")

\* registers_to_value, data_converter.py:274-287: the alias the controller
\* calls; `length` is accepted and ignored
registers_to_value(registers, data_type, length, byte_order) ==
    convert_from_registers(registers, data_type, byte_order)

\* ----------------------------------------------------- scaling arithmetic
\* Python's -, /, *, + on ints and floats.  Floats are exact tenths here: the
\* operands used keep every quotient and product a whole number of tenths.
Tenths(v) == IF IsInt(v) THEN 10 * Word(v) ELSE v[2]
\* an int or a float kept in tenths; of any other float x (a single pattern off
\* the table, or one made from it) the product x * b and the sum x + b are kept
\* as the terms <<"float*", x, b>> and <<"float+", x, b>>
InTenths(v) == v[1] \in {"int", "float"}
Sub(a, b) ==
    IF IsInt(a) /\ IsInt(b) THEN PyInt(Word(a) - Word(b)) ELSE Float(Tenths(a) - Tenths(b))
Add(a, b) ==
    IF IsInt(a) /\ IsInt(b) THEN PyInt(Word(a) + Word(b))
    ELSE IF ~InTenths(a) THEN <<"float+", a, b>>
    ELSE Float(Tenths(a) + Tenths(b))
Mul(a, b) ==
    IF IsInt(a) /\ IsInt(b) THEN PyInt(Word(a) * Word(b))
    ELSE IF ~InTenths(a) THEN <<"float*", a, b>>
    ELSE Float((Tenths(a) * Tenths(b)) \div 10)
\* true division: the quotient is a float whatever the operands are
TrueDiv(a, b) == Float((Tenths(a) * 10) \div Tenths(b))

\* faulty variant of ZeroScale: the guard looks at the wrong field
ZeroScaleUnchecked(reg) == reg.offset # None /\ Tenths(reg.offset) = 0

\* controller.py:291-292: a scale factor is configured and equals 0
ZeroScale(reg) == reg.scale_factor # None /\ Tenths(reg.scale_factor) = 0

\* controller.py:287-301: what write_register does with `value` before it
\* enters the gate: inverse scaling, then encoding without a byte_order
WriteRequest(reg, value) ==
    LET shifted == IF reg.offset # None THEN Sub(value, reg.offset) ELSE value
    IN  IF ZeroScale(reg) THEN Raised("WriteError")
        ELSE IF reg.scale_factor # None /\ Tenths(reg.scale_factor) = 0
        THEN Raised("ZeroDivisionError")    \* what `/` does with a zero divisor
        ELSE LET write_value == IF reg.scale_factor # None
                                THEN TrueDiv(shifted, reg.scale_factor)
                                ELSE shifted
             IN  value_to_registers(write_value, reg.type, "big", reg.length)

\* controller.py:209-219: decoding without a byte_order, then scaling
ReadValue(reg, raw_registers) ==
    LET value == registers_to_value(raw_registers, reg.type, reg.length, "big")
    IN  IF ~IsOk(value) THEN value
        ELSE LET scaled == IF reg.scale_factor # None
                           THEN Mul(value[2], reg.scale_factor) ELSE value[2]
             IN  Ok(IF reg.offset # None THEN Add(scaled, reg.offset) ELSE scaled)

\* ------------------------------------------------- _read_register_group
\* controller.py:170-176
start_address(group) == group[1].address
end_address(group) == group[Len(group)].address + wordCount(group[Len(group)])

\* faulty variant of count: one word is asked for every register of the group
count_of_registers(group) == Len(group)

count(group) == end_address(group) - start_address(group)

\* controller.py:179: async with self._rate_limiter
_read_register_group(t) ==
    /\ At(t, "rg")
    /\ _rate_limiter' = Acquired(_rate_limiter, t)
    /\ IF _rate_limiter.holder = NoTask
       THEN Goto(t, "rg_gated", FALSE)
       ELSE Goto(t, "rg_wait", TRUE)
    /\ txCount' = [txCount EXCEPT ![t] = 0]
    /\ wire' = [wire EXCEPT ![t] = <<>>]
    /\ reconnects' = [reconnects EXCEPT ![t] = 0]
    /\ UNCHANGED <<client, _connection_lock, _monitoring_active, _monitoring_task,
                   _last_values, _last_read_time, now, stack, last>>
    /\ UNCHANGED <<localVars, unspaced, liveConns, fixedVars>>

\* faulty variant of rg_wait: the waiting task goes on without the gate
rg_barge(t) ==
    /\ Wake(t, "rg_wait")
    /\ Goto(t, "rg_gated", FALSE)
    /\ UNCHANGED <<engineVars, stack, last, localVars, histVars, fixedVars>>

rg_wait(t) ==
    /\ Wake(t, "rg_wait")
    /\ _rate_limiter.holder = t
    /\ Goto(t, "rg_gated", FALSE)
    /\ UNCHANGED <<engineVars, stack, last, localVars, histVars, fixedVars>>

\* controller.py:180: await self._ensure_connected()
rg_gated(t) ==
    /\ At(t, "rg_gated")
    /\ _ensure_connected(t, "rg_tx")
    /\ UNCHANGED <<engineVars, last, localVars, txCount, wire, unspaced, liveConns, fixedVars>>

\* a transaction handed to the transport: the client method called with its
\* address and count, and the registers it carries (of a read: those of the
\* response, once it is there)
Transaction(primitive, address, n, registers) ==
    [primitive |-> primitive, address |-> address, count |-> n, registers |-> registers]

\* faulty variant of read_primitive: the two read methods are exchanged
read_primitive_swapped(function_code) ==
    IF function_code = 3 THEN "read_input_registers"
    ELSE IF function_code = 4 THEN "read_holding_registers"
    ELSE "none"

\* controller.py:184-197: the client method of a function code ("none": the
\* else branch)
read_primitive(function_code) ==
    IF function_code = 3 THEN "read_holding_registers"
    ELSE IF function_code = 4 THEN "read_input_registers"
    ELSE "none"

\* controller.py:184-197: the read primitive of the first register's function
\* code is called; any other function code raises ReadError
rg_tx(t) ==
    /\ At(t, "rg_tx")
    /\ IF read_primitive(grp[t][1].function_code) # "none"
       THEN /\ txCount' = [txCount EXCEPT ![t] = @ + 1]
            /\ wire' = [wire EXCEPT ![t] = Append(@,
                   Transaction(read_primitive(grp[t][1].function_code),
                               start_address(grp[t]), count(grp[t]), <<>>))]
            /\ Goto(t, "rg_io", TRUE)
            /\ UNCHANGED <<_rate_limiter, stack, last, grp, todo, reconnects>>
       ELSE /\ _rate_limiter' = Released(_rate_limiter, t)
            /\ Unwind(t, "ReadError")
    /\ UNCHANGED <<client, _connection_lock, _monitoring_active, _monitoring_task,
                   _last_values, _last_read_time, now>>
    /\ UNCHANGED <<cancel_req, awaiting, res, all_results, before, fired, callback_errors, callback, wargs,
                   inScope, closed, stale, unspaced, liveConns, fixedVars>>

\* faulty variant of Updated: the dict is replaced by the new entries
Replaced(d, f) == f

\* f @@ d: dict d updated with every entry of f
Updated(d, f) == f @@ d

\* registers[a:b] of a Python list
Slice(registers, a, b) ==
    SubSeq(registers, a + 1, IF b < Len(registers) THEN b ELSE Len(registers))

\* faulty variant of datetime_now: a clock that runs backwards
datetime_backwards == MaxTime - now

\* datetime.now() of controller.py:230: the wall clock, which is not set back
datetime_now == now

\* the for loop of controller.py:204-230 from register i of the group on: each
\* register is decoded from its slice of the response, scaled, put into the
\* results and stored in the two caches; a conversion that raises ends the loop
RECURSIVE DecodeLoop(_, _, _, _)
DecodeLoop(group, words, i, acc) ==
    IF i > Len(group) THEN acc
    ELSE LET reg    == group[i]
             offset == reg.address - start_address(group)
             raw_registers == Slice(words, offset, offset + wordCount(reg))
             value  == ReadValue(reg, raw_registers)
         IN  IF ~IsOk(value) THEN [acc EXCEPT !.exc = value[2]]
             ELSE DecodeLoop(group, words, i + 1,
                    [results |-> Updated(acc.results, reg.name :> value[2]),
                     _last_values |-> Updated(acc._last_values, reg.name :> value[2]),
                     _last_read_time |-> Updated(acc._last_read_time, reg.name :> datetime_now),
                     exc |-> "none"])

\* controller.py:203-230 for a response carrying `words`: the results, the two
\* caches as the loop leaves them, and the exception that ended it, if any
GroupValues(group, words) ==
    DecodeLoop(group, words, 1,
               [results |-> EmptyDict, _last_values |-> _last_values,
                _last_read_time |-> _last_read_time, exc |-> "none"])

\* the lengths response.registers may have for a request of n registers: the
\* device answers with n registers, a faulty one with one register fewer
ResponseLengths(n) == IF scenario.short THEN {n - 1, n} ELSE {n}

\* faulty variant of ReadFailed: the failed read is issued again
ReadRetried(t) ==
    /\ Goto(t, "rg_tx", FALSE)
    /\ UNCHANGED <<_rate_limiter, stack, grp, todo, last, txCount, wire, reconnects>>

\* controller.py:199-200 and 237-238: ReadError leaves `async with` and the call
ReadFailed(t) ==
    /\ _rate_limiter' = Released(_rate_limiter, t)
    /\ Unwind(t, "ReadError")

\* controller.py:199-238: the transport answered.  A good response is decoded,
\* cached and followed by sleep(min_request_interval) inside the gate; an error
\* response or a ModbusException raises ReadError and leaves the gate at once;
\* a conversion error leaves the loop, the gate and the call as it is
rg_io(t) ==
    /\ Wake(t, "rg_io")
    /\ unspaced' = TRUE
    /\ \E outcome \in Answers(grp[t]) :
         IF outcome = "ok"
         THEN \E n \in ResponseLengths(count(grp[t])) :
              \E words \in [1..n -> scenario.values] :
                LET parsed == GroupValues(grp[t], words)
                IN  /\ before' = [before EXCEPT ![t] = _last_values]
                    /\ _last_values' = parsed._last_values
                    /\ _last_read_time' = parsed._last_read_time
                    /\ IF parsed.exc = "none"
                       THEN /\ res' = [res EXCEPT ![t] = parsed.results]
                            /\ wire' = [wire EXCEPT ![t] =
                                   [@ EXCEPT ![Len(wire[t])].registers = words]]
                            /\ Goto(t, "rg_sleep", TRUE)
                            /\ UNCHANGED <<_rate_limiter, stack, last, grp, todo,
                                           txCount, reconnects>>
                       ELSE /\ _rate_limiter' = Released(_rate_limiter, t)
                            /\ Unwind(t, parsed.exc)
                            /\ UNCHANGED res
         ELSE /\ ReadFailed(t)
              /\ UNCHANGED <<res, before, _last_values, _last_read_time>>
    /\ UNCHANGED <<client, _connection_lock, _monitoring_active, _monitoring_task, now>>
    /\ UNCHANGED <<cancel_req, awaiting, all_results, fired, callback_errors, callback, wargs, inScope,
                   closed, stale>>
    /\ UNCHANGED <<liveConns, fixedVars>>

\* controller.py:233-235: the spacing wait is over, the gate is released
rg_sleep(t) ==
    /\ Wake(t, "rg_sleep")
    /\ unspaced' = FALSE
    /\ _rate_limiter' = Released(_rate_limiter, t)
    /\ Return(t)
    /\ UNCHANGED <<client, _connection_lock, _monitoring_active, _monitoring_task,
                   _last_values, _last_read_time, now>>
    /\ UNCHANGED <<localVars, txCount, wire, reconnects, liveConns, fixedVars>>

\* ------------------------------------------------------- write_register
\* controller.py:285-303: lookup, inverse scaling and encoding; when they
\* raise, the call ends there, else it goes on to async with self._rate_limiter
write_register(t) ==
    /\ At(t, "wr")
    /\ LET reg == _get_registers_by_name(wargs[t][1])
           registers == IF IsOk(reg) THEN WriteRequest(reg[2], wargs[t][2]) ELSE reg
       IN  IF IsOk(registers)
           THEN /\ _rate_limiter' = Acquired(_rate_limiter, t)
                /\ IF _rate_limiter.holder = NoTask
                   THEN Goto(t, "wr_gated", FALSE)
                   ELSE Goto(t, "wr_wait", TRUE)
                /\ txCount' = [txCount EXCEPT ![t] = 0]
                /\ wire' = [wire EXCEPT ![t] = <<>>]
                /\ reconnects' = [reconnects EXCEPT ![t] = 0]
                /\ UNCHANGED <<stack, last, grp, todo>>
           ELSE /\ Unwind(t, registers[2])
                /\ UNCHANGED _rate_limiter
    /\ UNCHANGED <<client, _connection_lock, _monitoring_active, _monitoring_task,
                   _last_values, _last_read_time, now>>
    /\ UNCHANGED <<cancel_req, awaiting, res, all_results, before, fired, callback_errors, callback, wargs,
                   inScope, closed, stale, unspaced, liveConns, fixedVars>>

wr_wait(t) ==
    /\ Wake(t, "wr_wait")
    /\ _rate_limiter.holder = t
    /\ Goto(t, "wr_gated", FALSE)
    /\ UNCHANGED <<engineVars, stack, last, localVars, histVars, fixedVars>>

\* controller.py:304
wr_gated(t) ==
    /\ At(t, "wr_gated")
    /\ _ensure_connected(t, "wr_tx")
    /\ UNCHANGED <<engineVars, last, localVars, txCount, wire, unspaced, liveConns, fixedVars>>

\* faulty variant of write_primitive: the single-register method for every value
write_primitive_single(registers) == "write_register"

\* controller.py:307-320, if len(registers) == 1: the client method of a write
write_primitive(registers) ==
    IF Len(registers) = 1 THEN "write_register" ELSE "write_registers"

\* controller.py:307-320: one write primitive is called
wr_tx(t) ==
    /\ At(t, "wr_tx")
    /\ txCount' = [txCount EXCEPT ![t] = @ + 1]
    /\ LET reg == _get_registers_by_name(wargs[t][1])[2]
           registers == WriteRequest(reg, wargs[t][2])[2]
       IN  wire' = [wire EXCEPT ![t] = Append(@,
               Transaction(write_primitive(registers), reg.address, Len(registers),
                           registers))]
    /\ Goto(t, "wr_io", TRUE)
    /\ UNCHANGED <<engineVars, stack, last, localVars, reconnects, unspaced,
                   liveConns, fixedVars>>

\* controller.py:322-337
wr_io(t) ==
    /\ Wake(t, "wr_io")
    /\ unspaced' = TRUE
    /\ \E outcome \in Answers(<<>>) :
         IF outcome = "ok"
         THEN /\ _last_values' = Updated(_last_values, wargs[t][1] :> wargs[t][2])
              /\ Goto(t, "wr_sleep", TRUE)
              /\ UNCHANGED <<_rate_limiter, stack, last, grp, todo, txCount, wire, reconnects>>
         ELSE /\ _rate_limiter' = Released(_rate_limiter, t)
              /\ Unwind(t, "WriteError")
              /\ UNCHANGED _last_values
    /\ UNCHANGED <<client, _connection_lock, _monitoring_active, _monitoring_task,
                   _last_read_time, now>>
    /\ UNCHANGED <<cancel_req, awaiting, res, all_results, before, fired, callback_errors, callback, wargs,
                   inScope, closed, stale, liveConns, fixedVars>>

wr_sleep(t) ==
    /\ Wake(t, "wr_sleep")
    /\ unspaced' = FALSE
    /\ _rate_limiter' = Released(_rate_limiter, t)
    /\ Return(t)
    /\ UNCHANGED <<client, _connection_lock, _monitoring_active, _monitoring_task,
                   _last_values, _last_read_time, now>>
    /\ UNCHANGED <<localVars, txCount, wire, reconnects, liveConns, fixedVars>>

\* ------------------------------------------------------- read_register
\* controller.py:272-274: the lookup, then the group of that one register is
\* read; an unknown name ends the call there
read_register(t) ==
    /\ At(t, "rr")
    /\ LET reg == _get_registers_by_name(wargs[t][1])
       IN  IF IsOk(reg)
           THEN /\ grp' = [grp EXCEPT ![t] = <<reg[2]>>]
                /\ Goto(t, "rg", FALSE)
                /\ UNCHANGED <<stack, last, todo, txCount, wire, reconnects>>
           ELSE Unwind(t, reg[2])
    /\ UNCHANGED <<engineVars, cancel_req, awaiting, res, all_results, before, fired, callback_errors, callback,
                   wargs, inScope, closed, stale, unspaced, liveConns, fixedVars>>

\* ------------------------------------------------------------- read_all
\* controller.py:250-259: every group of the catalog, one after another; the
\* results of the group just read go into all_results, which is returned
read_all(t) ==
    /\ At(t, "ra_loop")
    /\ all_results' = [all_results EXCEPT ![t] = Updated(@, res[t])]
    /\ IF todo[t] = <<>>
       THEN /\ Return(t)
            /\ UNCHANGED <<grp, todo>>
       ELSE /\ grp' = [grp EXCEPT ![t] = Head(todo[t])]
            /\ todo' = [todo EXCEPT ![t] = Tail(@)]
            /\ Call(t, "rg", "ra_loop")
            /\ UNCHANGED last
    /\ UNCHANGED <<engineVars, cancel_req, awaiting, res, before, fired, callback_errors, callback,
                   wargs, inScope, closed, stale, histVars, fixedVars>>


\* ----------------------------------------------- start / stop monitoring
\* a task slot the model can use for a new asyncio task: no task lives in it and
\* nothing refers to the finished one
Fresh(m) ==
    /\ pc[m] = "dead"
    /\ _monitoring_task # m
    /\ \A t \in Tasks : awaiting[t] # m

NewTask == CHOOSE m \in Mons : Fresh(m) /\ \A x \in Mons : Fresh(x) => m[2] <= x[2]

\* faulty variant of AlreadyMonitoring: start_monitoring never sees the flag
NeverMonitoring == FALSE

\* controller.py:351: if self._monitoring_active
AlreadyMonitoring == _monitoring_active

\* start_monitoring(), controller.py:351-359
start_monitoring(t) ==
    /\ At(t, "start_monitoring")
    /\ IF AlreadyMonitoring
       THEN /\ pc' = [pc EXCEPT ![t] = RetLabel(t)]
            /\ UNCHANGED <<_monitoring_active, _monitoring_task, callback, stale>>
       ELSE /\ _monitoring_active' = TRUE
            /\ _monitoring_task' = NewTask
            /\ callback' = [callback EXCEPT ![NewTask] = wargs[t][1]]
            /\ stale' = stale \ {NewTask}
            /\ pc' = [pc EXCEPT ![t] = RetLabel(t), ![NewTask] = "loop_start"]
    /\ Returned(t)
    /\ UNCHANGED <<client, _connection_lock, _rate_limiter, _last_values,
                   _last_read_time, now>>
    /\ UNCHANGED <<cancel_req, awaiting, grp, todo, res, all_results, before, fired, callback_errors, wargs,
                   inScope, closed>>
    /\ UNCHANGED <<histVars, fixedVars>>

\* stop_monitoring(), controller.py:363-376, up to `await self._monitoring_task`
stop_monitoring(t) ==
    /\ At(t, "stop_monitoring")
    /\ IF ~_monitoring_active
       THEN /\ Return(t)
            /\ UNCHANGED <<_monitoring_active, _monitoring_task, cancel_req, awaiting>>
       ELSE /\ _monitoring_active' = FALSE
            /\ IF _monitoring_task = NoTask
               THEN /\ Return(t)
                    /\ UNCHANGED <<_monitoring_task, cancel_req, awaiting>>
               ELSE IF Alive(_monitoring_task)
               THEN /\ cancel_req' = [cancel_req EXCEPT ![_monitoring_task] = TRUE]
                    /\ awaiting' = [awaiting EXCEPT ![t] = _monitoring_task]
                    /\ Goto(t, "stop_wait", TRUE)
                    /\ UNCHANGED <<_monitoring_task, stack, last>>
               ELSE /\ _monitoring_task' = NoTask
                    /\ Return(t)
                    /\ UNCHANGED <<cancel_req, awaiting>>
    /\ UNCHANGED <<client, _connection_lock, _rate_limiter, _last_values,
                   _last_read_time, now>>
    /\ UNCHANGED <<grp, todo, res, all_results, before, fired, callback_errors, callback, wargs, inScope, closed, stale>>
    /\ UNCHANGED <<histVars, fixedVars>>

\* controller.py:371-376: the awaited task has ended
stop_wait(t) ==
    /\ Wake(t, "stop_wait")
    /\ ~Alive(awaiting[t])
    /\ _monitoring_task' = NoTask
    /\ awaiting' = [awaiting EXCEPT ![t] = NoTask]
    /\ Return(t)
    /\ UNCHANGED <<client, _connection_lock, _rate_limiter, _monitoring_active,
                   _last_values, _last_read_time, now>>
    /\ UNCHANGED <<cancel_req, grp, todo, res, all_results, before, fired, callback_errors, callback, wargs, inScope, closed, stale>>
    /\ UNCHANGED <<histVars, fixedVars>>

\* ------------------------------------------------------ _monitoring_loop
\* the task created by asyncio.create_task runs for the first time
loop_start(m) ==
    /\ Wake(m, "loop_start")
    /\ Goto(m, "loop_head", FALSE)
    /\ UNCHANGED <<engineVars, stack, last, localVars, histVars, fixedVars>>

\* faulty variant of Due: the time of the last read is not looked at
DueWithoutTimestamp(reg) == reg.poll_interval # <<>>

\* controller.py:386-392: the registers due at `now`, in catalog order
Due(reg) ==
    /\ reg.poll_interval # <<>>
    /\ \/ reg.name \notin DOMAIN _last_read_time
       \/ now - _last_read_time[reg.name] >= reg.poll_interval[1]

to_read == SelectSeq(config.registers, Due)

TaskEnds(m) ==
    /\ pc' = [pc EXCEPT ![m] = "dead"]
    /\ running' = NoTask
    /\ stack' = [stack EXCEPT ![m] = <<>>]
    /\ cancel_req' = [cancel_req EXCEPT ![m] = FALSE]
    /\ grp' = [grp EXCEPT ![m] = <<>>]
    /\ todo' = [todo EXCEPT ![m] = <<>>]
    /\ res' = [res EXCEPT ![m] = EmptyDict]
    /\ UNCHANGED all_results
    /\ before' = [before EXCEPT ![m] = EmptyDict]
    /\ fired' = [fired EXCEPT ![m] = {}]
    /\ callback_errors' = [callback_errors EXCEPT ![m] = {}]
    /\ callback' = [callback EXCEPT ![m] = FALSE]
    /\ txCount' = Cleared(txCount, m, 0)
    /\ wire' = Cleared(wire, m, <<>>)
    /\ reconnects' = Cleared(reconnects, m, 0)

\* controller.py:380-396 and 412-413: the while test, the due registers, their
\* groups; with nothing due the loop sleeps its tick
_monitoring_loop(m) ==
    /\ At(m, "loop_head")
    /\ IF ~_monitoring_active
       THEN TaskEnds(m)
       ELSE /\ IF to_read # <<>>
               THEN /\ todo' = [todo EXCEPT ![m] =
                          _group_consecutive_registers(to_read, config.max_registers_per_read)]
                    /\ Goto(m, "loop_groups", FALSE)
               ELSE /\ Goto(m, "loop_tick", TRUE)
                    /\ UNCHANGED todo
            /\ UNCHANGED <<stack, cancel_req, grp, res, all_results, before, fired, callback_errors, callback,
                           txCount, wire, reconnects>>
    /\ UNCHANGED <<engineVars, last, awaiting, wargs, inScope, closed, stale, unspaced,
                   liveConns, fixedVars>>

\* controller.py:397-398: the next group is read, or the iteration ends
loop_groups(m) ==
    /\ At(m, "loop_groups")
    /\ res' = [res EXCEPT ![m] = EmptyDict]
    /\ UNCHANGED all_results
    /\ before' = [before EXCEPT ![m] = EmptyDict]
    /\ fired' = [fired EXCEPT ![m] = {}]
    /\ callback_errors' = [callback_errors EXCEPT ![m] = {}]
    /\ IF todo[m] = <<>>
       THEN /\ Goto(m, "loop_tick", TRUE)
            /\ grp' = Cleared(grp, m, <<>>)
            /\ UNCHANGED <<todo, stack>>
       ELSE /\ grp' = [grp EXCEPT ![m] = Head(todo[m])]
            /\ todo' = [todo EXCEPT ![m] = Tail(@)]
            /\ Call(m, "rg", "loop_cb")
    /\ UNCHANGED <<engineVars, last, cancel_req, awaiting, callback, wargs, inScope,
                   closed, stale, histVars, fixedVars>>

\* float('nan'): a float32 whose exponent bits are all ones and whose mantissa
\* is not zero, and what scaling makes of it
RECURSIVE IsNaN(_)
IsNaN(value) ==
    IF value[1] \in {"float*", "float+"} THEN IsNaN(value[2])
    ELSE /\ value[1] = "single"
         /\ (value[2] \div 128) % 256 = 255
         /\ (value[2] % 128 # 0 \/ value[3] # 0)

\* controller.py:405, old_value != new_value: old_value is what _last_values.get
\* gave, and a NaN differs from itself
NotEqual(old_value, new_value) == old_value # <<new_value>> \/ IsNaN(new_value)

\* controller.py:401-410: old_value is looked up in the cache after
\* _read_register_group has stored the new values there
Changed(results) ==
    {<<n, Get(_last_values, n), results[n]>> : n \in
        {x \in DOMAIN results : NotEqual(Get(_last_values, x), results[x])}}

\* faulty variant of except_Exception: the callback's exception leaves the loop
except_nothing(e) == e

\* controller.py:408-409, except Exception as e: the callback's exception is
\* logged and nothing leaves the try statement
except_Exception(e) == "none"

\* controller.py:402-409, for name, data in results.items(): the names in the
\* order the group's read stored them, a callback invocation for each changed
\* one; `raising` are the names whose invocation raises.  acc holds the
\* invocations made, the names whose exception was logged and the exception that
\* left the loop
RECURSIVE InvokeCallbacks(_, _, _, _)
InvokeCallbacks(names, changed, raising, acc) ==
    IF names = <<>> \/ acc.exc # "none" THEN acc
    ELSE LET invocation == {c \in changed : c[1] = Head(names)}
             e == IF Head(names) \in raising THEN except_Exception("Exception") ELSE "none"
         IN  IF invocation = {}
             THEN InvokeCallbacks(Tail(names), changed, raising, acc)
             ELSE InvokeCallbacks(Tail(names), changed, raising,
                     [fired |-> acc.fired \cup invocation,
                      callback_errors |-> acc.callback_errors \cup ({Head(names)} \cap raising),
                      exc |-> e])

\* the names of the registers of a group, in the group's order
GroupNames(group) == [i \in DOMAIN group |-> group[i].name]

loop_cb(m) ==
    /\ At(m, "loop_cb")
    /\ \E raising \in (IF callback[m] /\ scenario.raising
                       THEN SUBSET {c[1] : c \in Changed(res[m])} ELSE {{}}) :
         LET told == IF callback[m]
                     THEN InvokeCallbacks(GroupNames(grp[m]), Changed(res[m]), raising,
                              [fired |-> {}, callback_errors |-> {}, exc |-> "none"])
                     ELSE [fired |-> {}, callback_errors |-> {}, exc |-> "none"]
         IN  /\ fired' = [fired EXCEPT ![m] = told.fired]
             /\ callback_errors' = [callback_errors EXCEPT ![m] = told.callback_errors]
             /\ IF told.exc = "none"
                THEN /\ txCount' = Cleared(txCount, m, 0)
                     /\ wire' = Cleared(wire, m, <<>>)
                     /\ reconnects' = Cleared(reconnects, m, 0)
                     /\ Goto(m, "loop_groups", FALSE)
                     /\ UNCHANGED <<stack, last, grp, todo>>
                ELSE Unwind(m, told.exc)
    /\ UNCHANGED <<engineVars, cancel_req, awaiting, res, all_results, before, callback,
                   wargs, inScope, closed, stale, unspaced, liveConns, fixedVars>>

\* controller.py:413: the tick sleep is over
loop_tick(m) ==
    /\ Wake(m, "loop_tick")
    /\ Goto(m, "loop_head", FALSE)
    /\ UNCHANGED <<engineVars, stack, last, localVars, histVars, fixedVars>>

\* controller.py:417-419: the sleep of the `except Exception` handler is over
loop_err(m) ==
    /\ Wake(m, "loop_err")
    /\ Goto(m, "loop_head", FALSE)
    /\ last' = [last EXCEPT ![m] = NoCall]
    /\ UNCHANGED <<engineVars, stack, localVars, histVars, fixedVars>>

\* faulty variant of Cancelled: the cancelled task ends with the rate gate in
\* its hands
CancelledHolding(m) ==
    /\ running = NoTask
    /\ cancel_req[m]
    /\ Alive(m)
    /\ _connection_lock' = Released(_connection_lock, m)
    /\ unspaced' = (unspaced \/ pc[m] = "rg_io")
    /\ TaskEnds(m)
    /\ last' = [last EXCEPT ![m] = NoCall]
    /\ UNCHANGED <<client, _rate_limiter, _monitoring_active, _monitoring_task,
                   _last_values, _last_read_time, now>>
    /\ UNCHANGED <<awaiting, wargs, inScope, closed, stale, liveConns, fixedVars>>

\* Task.cancel() is delivered when the loop next runs the task: CancelledError is
\* raised at the await the task is suspended in, every `async with` it is inside
\* releases, and the task ends (controller.py:415-416, or out of the handler's
\* sleep).  A transaction it had in flight is cut.
Cancelled(m) ==
    /\ running = NoTask
    /\ cancel_req[m]
    /\ Alive(m)
    /\ _rate_limiter' = Released(_rate_limiter, m)
    /\ _connection_lock' = Released(_connection_lock, m)
    /\ unspaced' = (unspaced \/ pc[m] = "rg_io")
    /\ TaskEnds(m)
    /\ last' = [last EXCEPT ![m] = NoCall]
    /\ UNCHANGED <<client, _monitoring_active, _monitoring_task, _last_values,
                   _last_read_time, now>>
    /\ UNCHANGED <<awaiting, wargs, inScope, closed, stale, liveConns, fixedVars>>

\* ---------------------------------------------------- the callers' calls
\* a foreground task is in its own code: it makes a call, or gives the loop back
CanCall(t) ==
    /\ t \in Callers
    /\ pc[t] = "idle"
    /\ running = NoTask

Enter(t, op, label, args) ==
    /\ pc' = [pc EXCEPT ![t] = label]
    /\ running' = t
    /\ last' = [last EXCEPT ![t] = [op |-> op, out |-> "run", exc |-> "none"]]
    /\ wargs' = [wargs EXCEPT ![t] = args]
    /\ res' = [res EXCEPT ![t] = EmptyDict]
    /\ all_results' = [all_results EXCEPT ![t] = EmptyDict]
    /\ before' = [before EXCEPT ![t] = EmptyDict]

call_connect(t) ==
    /\ CanCall(t) /\ Does(t, "connect")
    /\ Enter(t, "connect", "connect", <<>>)
    /\ UNCHANGED <<engineVars, stack, cancel_req, awaiting, grp, todo, fired, callback_errors,
                   callback, inScope, closed, stale, histVars, fixedVars>>

call_disconnect(t) ==
    /\ CanCall(t) /\ Does(t, "disconnect")
    /\ Enter(t, "disconnect", "disconnect", <<>>)
    /\ UNCHANGED <<engineVars, stack, cancel_req, awaiting, grp, todo, fired, callback_errors,
                   callback, inScope, closed, stale, histVars, fixedVars>>

call_read_register(t, name) ==
    /\ CanCall(t) /\ Does(t, "read_register")
    /\ Enter(t, "read_register", "rr", <<name>>)
    /\ UNCHANGED <<engineVars, stack, cancel_req, awaiting, grp, todo, fired, callback_errors,
                   callback, inScope, closed, stale, histVars, fixedVars>>

\* read_all(), controller.py:250-251
call_read_all(t) ==
    /\ CanCall(t) /\ Does(t, "read_all")
    /\ Enter(t, "read_all", "ra_loop", <<>>)
    /\ todo' = [todo EXCEPT ![t] =
           _group_consecutive_registers(config.registers, config.max_registers_per_read)]
    /\ UNCHANGED <<engineVars, stack, cancel_req, awaiting, grp, fired, callback_errors,
                   callback, inScope, closed, stale, histVars, fixedVars>>

call_write_register(t, name, value) ==
    /\ CanCall(t) /\ Does(t, "write_register")
    /\ Enter(t, "write_register", "wr", <<name, value>>)
    /\ UNCHANGED <<engineVars, stack, cancel_req, awaiting, grp, todo, fired, callback_errors,
                   callback, inScope, closed, stale, histVars, fixedVars>>

\* a new polling task needs a free slot of the model
call_start_monitoring(t, cb) ==
    /\ CanCall(t) /\ Does(t, "start_monitoring")
    /\ _monitoring_active \/ \E m \in Mons : Fresh(m)
    /\ Enter(t, "start_monitoring", "start_monitoring", <<cb>>)
    /\ UNCHANGED <<engineVars, stack, cancel_req, awaiting, grp, todo, fired, callback_errors,
                   callback, inScope, closed, stale, histVars, fixedVars>>

call_stop_monitoring(t) ==
    /\ CanCall(t) /\ Does(t, "stop_monitoring")
    /\ Enter(t, "stop_monitoring", "stop_monitoring", <<>>)
    /\ UNCHANGED <<engineVars, stack, cancel_req, awaiting, grp, todo, fired, callback_errors,
                   callback, inScope, closed, stale, histVars, fixedVars>>

\* async with controller: __aenter__, controller.py:59-62
aenter(t) ==
    /\ CanCall(t) /\ Does(t, "scope") /\ ~inScope[t]
    /\ Enter(t, "aenter", "connect", <<>>)
    /\ stack' = [stack EXCEPT ![t] = <<"aenter_ret">>]
    /\ UNCHANGED <<engineVars, cancel_req, awaiting, grp, todo, fired, callback_errors,
                   callback, inScope, closed, stale, histVars, fixedVars>>

\* connect() returned: the body of the scope starts
aenter_ret(t) ==
    /\ At(t, "aenter_ret")
    /\ inScope' = [inScope EXCEPT ![t] = TRUE]
    /\ closed' = [closed EXCEPT ![t] = FALSE]
    /\ UNCHANGED stale
    /\ Return(t)
    /\ UNCHANGED <<engineVars, cancel_req, awaiting, grp, todo, res, all_results, before, fired, callback_errors,
                   callback, wargs, histVars, fixedVars>>

\* faulty variant of aexit: __aexit__ returns without awaiting disconnect()
aexit_no_disconnect(t, how) ==
    /\ CanCall(t) /\ inScope[t]
    /\ Enter(t, "aexit", "aexit_ret", <<how>>)
    /\ stack' = [stack EXCEPT ![t] = <<>>]
    /\ UNCHANGED <<engineVars, cancel_req, awaiting, grp, todo, fired, callback_errors,
                   callback, inScope, closed, stale, histVars, fixedVars>>

\* the body of the scope ends, normally or with an exception: __aexit__,
\* controller.py:64-66
aexit(t, how) ==
    /\ CanCall(t) /\ inScope[t]
    /\ Enter(t, "aexit", "disconnect", <<how>>)
    /\ stack' = [stack EXCEPT ![t] = <<"aexit_ret">>]
    /\ UNCHANGED <<engineVars, cancel_req, awaiting, grp, todo, fired, callback_errors,
                   callback, inScope, closed, stale, histVars, fixedVars>>

aexit_ret(t) ==
    /\ At(t, "aexit_ret")
    /\ inScope' = [inScope EXCEPT ![t] = FALSE]
    /\ Return(t)
    /\ UNCHANGED <<engineVars, cancel_req, awaiting, grp, todo, res, all_results, before, fired, callback_errors,
                   callback, wargs, closed, stale, histVars, fixedVars>>

\* the caller awaits something else: other tasks run
Yield(t) ==
    /\ t \in Callers
    /\ At(t, "idle")
    /\ running' = NoTask
    /\ last' = [last EXCEPT ![t] = NoCall]
    /\ wargs' = [wargs EXCEPT ![t] = <<>>]
    /\ res' = [res EXCEPT ![t] = EmptyDict]
    /\ all_results' = [all_results EXCEPT ![t] = EmptyDict]
    /\ before' = [before EXCEPT ![t] = EmptyDict]
    /\ grp' = Cleared(grp, t, <<>>)
    /\ txCount' = Cleared(txCount, t, 0)
    /\ wire' = Cleared(wire, t, <<>>)
    /\ reconnects' = Cleared(reconnects, t, 0)
    /\ stale' = stale \ {t}
    /\ UNCHANGED <<engineVars, pc, stack, cancel_req, awaiting, todo, fired, callback_errors,
                   callback, inScope, closed, unspaced, liveConns, fixedVars>>

\* ------------------------------------------------ stand-alone grouping
Kinds == {<<"uint16", 0>>, <<"float32", 0>>, <<"string", StrLen>>}
Addresses == BaseAddress..(BaseAddress + MaxAddrOffset)

\* LimitsConfig.max_registers_per_read, config_loader.py:101: the default
DefaultMaxRegisters == 125

\* the limits tried: the small ones, which split runs, and the default
Limits == (1..MaxLimit) \cup {DefaultMaxRegisters}

\* a register list with distinct names: n registers, register i of the address
\* and kind f[i]
GroupInput(n, f) ==
    [i \in 1..n |-> Reg(<<"r", i>>, f[i][1], f[i][2][1], f[i][2][2], 3, <<>>)]

GroupRegisters ==
    /\ ~grouped
    /\ grouping_result' =
           _group_consecutive_registers(config.registers, config.max_registers_per_read)
    /\ grouped' = TRUE
    /\ UNCHANGED <<config, scenario, engineVars, pc, stack, running, last,
                   localVars, histVars, pureVars>>

\* ------------------------------------------- stand-alone value conversions
NoRequest == [kind |-> "none"]
NotRun == <<"idle", 0>>

\* everything but the conversion variables
engineState == <<config, grouping_result, grouped, scenario, engineVars, pc, stack,
                 running, last, localVars, histVars>>

\* scale factors and offsets of the registers tried: None, 0, 0.1 and 1.0
Scales  == {None, Float(0), Float(1), Float(10)}
Offsets == {None, Float(0), Float(10)}

\* the registers tried: one-word integers with every scaling, 32-bit registers
\* with either word order
ValueRegisters ==
    {Scaled(Reg("r", BaseAddress, ty, 0, 3, <<>>), s, o) :
        ty \in {"uint16", "int16"}, s \in Scales, o \in Offsets}
    \cup {WithOrder(Reg("r", BaseAddress, ty, 0, 3, <<>>), bo) :
        ty \in {"uint32", "int32", "float32"}, bo \in {"big", "little"}}

\* user-facing values written to a register of this type
WrittenValues(data_type) ==
    CASE data_type \in {"uint16", "int16"} ->
           {PyInt(10), PyInt(225), Float(225), Float(100)}
      [] data_type \in {"uint32", "int32"} ->
           {PyPair(0, 1), PyPair(1, 0), PyPair(1, 2), PyPair(SignBit - 1, WordBase - 1)}
      [] data_type = "float32" ->
           {PyInt(1), Float(10), Float(2565)}

\* words a device holds in a register of this type
DeviceWords(data_type) ==
    IF data_type \in {"uint16", "int16"} THEN {<<10>>, <<225>>}
    ELSE {<<0, 1>>, <<1, 0>>, <<1, 2>>, <<17280, 16384>>, <<16384, 17280>>}

\* write_register up to the encoding of the value, controller.py:285-301
WriteValue ==
    /\ request.kind = "register"
    /\ encoded = NotRun
    /\ encoded' = WriteRequest(request.reg, request.value)
    /\ UNCHANGED <<engineState, request, decoded, echoed, loaded>>

\* the device echoes the words written; they are read back, controller.py:203-219
EchoRead ==
    /\ request.kind = "register"
    /\ IsOk(encoded)
    /\ echoed = NotRun
    /\ echoed' = ReadValue(request.reg, encoded[2])
    /\ UNCHANGED <<engineState, request, encoded, decoded, loaded>>

\* the register is read from a device holding `registers`, controller.py:203-219
ReadWords ==
    /\ request.kind = "register"
    /\ decoded = NotRun
    /\ decoded' = ReadValue(request.reg, request.registers)
    /\ UNCHANGED <<engineState, request, encoded, echoed, loaded>>

\* ------------------------------------------------ stand-alone converter
\* the data types tried: the six the converter knows and one it does not
DataTypes == {"uint16", "int16", "uint32", "int32", "float32", "string", "bool"}
ByteOrders == {"big", "little"}

\* ints at and around every range boundary of the integer types
HighSamples == {-SignBit - 1, -SignBit, -1, 0, 1, SignBit - 1, SignBit,
                WordBase - 1, WordBase}
LowSamples == {0, 1, SignBit - 1, SignBit, WordBase - 1}
IntSamples == {PyPair(hi, lo) : hi \in HighSamples, lo \in LowSamples}

\* code points of the texts: "T", "E", "S", space, NUL and a non-ASCII one
Chars == {84, 69, 83, Space, Nul, 233}
Texts == UNION {[1..n -> Chars] : n \in 0..MaxChars}

\* words of the lists decoded: boundary values, "TE" and two spaces
WordSamples == {0, 1, SignBit, WordBase - 1, 21573, 8224}

\* the values given to value_to_registers for a data type: those of the type
\* and some of every other Python type
EncodedValues(data_type) ==
    CASE data_type = "string"  -> {Str(chars) : chars \in Texts} \cup {PyInt(1), None}
      [] data_type = "float32" -> {Float(r[1]) : r \in Float32Table}
                                     \cup {PyInt(0), PyInt(1), Str(<<84>>), None}
      [] OTHER -> IntSamples \cup {Float(10), Str(<<84>>), None}

\* the `length` arguments tried for a data type (0 stands for None)
Lengths(data_type) == IF data_type = "string" THEN 0..MaxWords ELSE {0}

\* the lengths a register of the data type is configured with
\* (config_loader.py:82-86: a string register has one)
ConfiguredLengths(data_type) == IF data_type = "string" THEN 1..MaxWords ELSE {0}

\* the word orders tried for a data type
OrdersOf(data_type) == IF data_type = "string" THEN {"big"} ELSE ByteOrders

\* value_to_registers is called, data_converter.py:146-242
Encode ==
    /\ request.kind = "encode"
    /\ encoded = NotRun
    /\ encoded' = value_to_registers(request.value, request.data_type,
                                     request.byte_order, request.length)
    /\ UNCHANGED <<engineState, request, decoded, echoed, loaded>>

\* the words it returned are decoded, data_converter.py:245-270
DecodeEncoded ==
    /\ request.kind = "encode"
    /\ IsOk(encoded)
    /\ echoed = NotRun
    /\ echoed' = convert_from_registers(encoded[2], request.data_type, request.byte_order)
    /\ UNCHANGED <<engineState, request, encoded, decoded, loaded>>

\* registers_to_value is called on a list of words, data_converter.py:274-287
Decode ==
    /\ request.kind = "decode"
    /\ decoded = NotRun
    /\ decoded' = registers_to_value(request.registers, request.data_type,
                                     request.length, request.byte_order)
    /\ UNCHANGED <<engineState, request, encoded, echoed, loaded>>

\* ------------------------------------------------- configuration loading
\* A configuration document: the state of its file ("ok", "missing",
\* "malformed"), its "connection" object and its "registers" list.  An optional
\* text is <<>> (absent) or <<text>>; length = 0 stands for None.
ConnectionDoc(type, host, port_name) ==
    [type |-> type, host |-> host, port_name |-> port_name]
RegisterDoc(name, type, function_code, byte_order, length) ==
    [name |-> name, type |-> type, function_code |-> function_code,
     byte_order |-> byte_order, length |-> length]

\* `not text` for an optional text
Falsy(text) == text = <<>> \/ text = <<"">>

\* ConnectionConfig.validate_type, config_loader.py:28-33
connection_validate_type(v) == v \in {"tcp", "rtu"}

\* ConnectionConfig.validate_connection_params, config_loader.py:35-41
validate_connection_params(connection) ==
    /\ ~(connection.type = "tcp" /\ Falsy(connection.host))
    /\ ~(connection.type = "rtu" /\ Falsy(connection.port_name))

\* RegisterConfig.validate_type, config_loader.py:59-65
register_validate_type(v) ==
    v \in {"uint16", "int16", "uint32", "int32", "float32", "string"}

\* RegisterConfig.validate_function_code, config_loader.py:67-73
validate_function_code(v) == v \in {1, 2, 3, 4, 5, 6, 15, 16}

\* RegisterConfig.validate_byte_order, config_loader.py:75-80
validate_byte_order(v) == v \in {"big", "little"}

\* RegisterConfig.validate_string_length, config_loader.py:82-86
validate_string_length(reg) == ~(reg.type = "string" /\ reg.length = 0)

\* faulty variant of validate_unique_names: names are not compared
names_unchecked(registers) == TRUE

\* ModbusConfig.validate_unique_names, config_loader.py:113-118
validate_unique_names(registers) ==
    Cardinality({registers[i].name : i \in DOMAIN registers}) = Len(registers)

\* ModbusConfig(**config_dict) passes validation, config_loader.py:107-118
Validates(doc) ==
    /\ connection_validate_type(doc.connection.type)
    /\ validate_connection_params(doc.connection)
    /\ \A i \in DOMAIN doc.registers :
          /\ register_validate_type(doc.registers[i].type)
          /\ validate_function_code(doc.registers[i].function_code)
          /\ validate_byte_order(doc.registers[i].byte_order)
          /\ validate_string_length(doc.registers[i])
    /\ validate_unique_names(doc.registers)

\* the ModbusConfig of a valid document, with the default limits; entry i is
\* given the address BaseAddress + i - 1
ModbusConfigOf(doc) ==
    [registers |->
        [i \in DOMAIN doc.registers |->
            WithOrder(Reg(doc.registers[i].name, BaseAddress + i - 1,
                          doc.registers[i].type, doc.registers[i].length,
                          doc.registers[i].function_code, <<>>),
                      doc.registers[i].byte_order)],
     max_registers_per_read |-> DefaultMaxRegisters]

\* ConfigLoader.load_from_dict, config_loader.py:157-176
load_from_dict(doc) ==
    IF Validates(doc) THEN Ok(ModbusConfigOf(doc)) ELSE Raised("ConfigurationError")

\* ConfigLoader.load_from_file, config_loader.py:126-155
load_from_file(doc) ==
    IF doc.file = "missing" THEN Raised("ConfigurationError")
    ELSE IF doc.file = "malformed" THEN Raised("ConfigurationError")
    ELSE load_from_dict(doc)

\* self.config of an engine that was never constructed
NoConfig == [registers |-> <<>>, max_registers_per_read |-> 0]

\* ModbusController.__init__ with a path, controller.py:39-41: the engine
\* exists only if the loader returned a configuration
Construct ==
    /\ request.kind = "load"
    /\ loaded = NotRun
    /\ loaded' = load_from_file(request)
    /\ config' = IF IsOk(loaded') THEN loaded'[2] ELSE config
    /\ UNCHANGED <<grouping_result, grouped, scenario, engineVars, pc, stack,
                   running, last, localVars, histVars, request, encoded, decoded,
                   echoed>>

\* the documents tried: every connection object with one good register, and a
\* good connection with every list of register entries
FileStates == {"ok", "missing", "malformed"}
OptionalTexts == {<<>>, <<"">>, <<"x">>}
ConnectionDocs ==
    {ConnectionDoc(type, host, port_name) :
        type \in {"tcp", "rtu", "udp"}, host \in OptionalTexts,
        port_name \in OptionalTexts}
RegisterDocs ==
    {RegisterDoc(name, type, function_code, byte_order, length) :
        name \in {"a", "b"}, type \in {"uint16", "string", "bool"},
        function_code \in {3, 7}, byte_order \in {"little", "middle"},
        length \in {0, 2}}
GoodConnection == ConnectionDoc("tcp", <<"x">>, <<>>)
GoodRegister == RegisterDoc("a", "uint16", 3, "big", 0)

\* --------------------------------------------------------- specifications
\* A workload fixes what every caller does with the engine and what the device
\* and the network may do.  Caller 1 has the first menu, every other caller
\* the second.
Workload(ops1, ops2, values, callbacks, lossy) ==
    [ops |-> [t \in Callers |-> IF t[2] = 1 THEN ops1 ELSE ops2],
     values |-> values, writes |-> {PyInt(v) : v \in values},
     callbacks |-> callbacks, lossy |-> lossy, unknown |-> {}, short |-> FALSE,
     raising |-> FALSE, reliable |-> FALSE, rejects |-> {}]

\* readers and writers compete with each other and with the polling task
Transactions ==
    Workload({"start_monitoring", "read_all"},
             {"read_register", "write_register"}, {10}, {FALSE}, FALSE)

\* every caller starts and stops monitoring and disconnects
Lifecycles ==
    Workload({"start_monitoring", "stop_monitoring"},
             {"start_monitoring", "stop_monitoring", "disconnect"}, {10}, {FALSE}, FALSE)

\* every caller connects, on its own or through a read or write, on a network
\* that loses connections
Connections ==
    Workload({"connect", "read_register", "disconnect"},
             {"connect", "write_register"}, {10}, {FALSE}, TRUE)

\* one caller owns the engine inside `async with` and monitors, the others read
\* and write
Scoped ==
    Workload({"scope", "start_monitoring", "stop_monitoring"},
             {"read_register", "write_register"}, {10}, {FALSE}, FALSE)

\* one caller connects, monitors and disconnects by hand on a network that loses
\* connections, the others read
Owned ==
    Workload({"connect", "disconnect", "start_monitoring", "stop_monitoring", "read_all"},
             {"read_register"}, {10}, {FALSE}, TRUE)

\* one caller monitors with an observer while the device's values change, and
\* may answer a read one register short, and the others write
Observed ==
    [Workload({"start_monitoring", "stop_monitoring"},
              {"write_register"}, Values, {TRUE}, FALSE) EXCEPT !.short = TRUE]

\* the catalog of the scaled workload: "z" has a zero scale factor, "s" the
\* scale 0.1 and offset 0, "f" and "a" have no scaling
ScaledRegisters ==
    << Scaled(Reg("z", BaseAddress, "uint16", 0, 3, <<>>), Float(0), None),
       Scaled(Reg("s", BaseAddress + 1, "uint16", 0, 3, <<>>), Float(1), Float(0)),
       Reg("f", BaseAddress + 2, "float32", 0, 3, <<>>),
       Reg("a", BaseAddress + 4, "uint16", 0, 3, <<>>) >>

ScaledConfig == [registers |-> ScaledRegisters, max_registers_per_read |-> MaxLimit]

\* callers write ints and floats to scaled and unscaled registers and read them,
\* also under a name the catalog does not have
Guarded ==
    [Workload({"write_register"}, {"write_register", "read_register"}, {10}, {}, FALSE)
        EXCEPT !.writes = {PyInt(10), Float(225)}, !.unknown = {"missing"}]

Quiet == Workload({}, {}, {}, {}, FALSE)

\* the catalogs of the catalog workload, not in address order: "u" and "f" are
\* adjacent and scaled (factor 0.5, offset 1.0), "h" is an input register apart
\* from them; "c", adjacent to "f", has a function code no read primitive serves
ReadableRegisters ==
    << Reg("h", BaseAddress + 5, "uint16", 0, 4, <<>>),
       Scaled(Reg("u", BaseAddress, "uint16", 0, 3, <<>>), Float(5), Float(10)),
       Scaled(Reg("f", BaseAddress + 1, "float32", 0, 3, <<>>), Float(5), Float(10)) >>

CatalogRegisters ==
    <<Reg("c", BaseAddress + 3, "uint16", 0, 6, <<>>)>> \o ReadableRegisters

\* one caller reads single registers and the whole catalog and writes, on a
\* device that may answer a read with one register too few
Catalog ==
    [Workload({"read_register", "read_all", "write_register"}, {}, {0, 16256}, {}, FALSE)
        EXCEPT !.writes = {PyInt(1), Float(60)}, !.short = TRUE]

Init ==
    /\ EngineInit
    /\ request = NoRequest
    /\ \/ /\ config = EngineConfig
          /\ scenario \in {Transactions, Lifecycles, Connections, Scoped, Owned, Observed}
       \/ /\ config = ScaledConfig
          /\ scenario = Guarded

\* one caller owns the engine's lifecycle, the others only read and write
InitGroup ==
    /\ EngineInit
    /\ request = NoRequest
    /\ scenario = Quiet
    /\ \E n \in 0..MaxRegs, max_regs \in Limits :
         \E f \in [1..n -> Addresses \X Kinds] :
           config = [registers |-> GroupInput(n, f), max_registers_per_read |-> max_regs]

Next ==
    \/ \E t \in Callers :
          \/ call_connect(t)
          \/ call_disconnect(t)
          \/ \E name \in Names \cup scenario.unknown : call_read_register(t, name)
          \/ call_read_all(t)
          \/ \E name \in Names \cup scenario.unknown, value \in scenario.writes :
                call_write_register(t, name, value)
          \/ \E cb \in scenario.callbacks : call_start_monitoring(t, cb)
          \/ call_stop_monitoring(t)
          \/ aenter(t)
          \/ aenter_ret(t)
          \/ \E how \in {"normal", "raised"} : aexit(t, how)
          \/ aexit_ret(t)
          \/ Yield(t)
          \/ disconnect(t)
          \/ disc_lock(t)
          \/ disc_wait(t)
          \/ disc_locked(t)
          \/ start_monitoring(t)
          \/ stop_monitoring(t)
          \/ stop_wait(t)
          \/ read_register(t)
          \/ read_all(t)
          \/ write_register(t)
          \/ wr_wait(t)
          \/ wr_gated(t)
          \/ wr_tx(t)
          \/ wr_io(t)
          \/ wr_sleep(t)
    \/ \E t \in Tasks :
          \/ connect(t)
          \/ connect_wait(t)
          \/ connect_locked(t)
          \/ connect_io(t)
          \/ _read_register_group(t)
          \/ rg_wait(t)
          \/ rg_gated(t)
          \/ rg_tx(t)
          \/ rg_io(t)
          \/ rg_sleep(t)
    \/ \E m \in Mons :
          \/ loop_start(m)
          \/ _monitoring_loop(m)
          \/ loop_groups(m)
          \/ loop_cb(m)
          \/ loop_tick(m)
          \/ loop_err(m)
          \/ Cancelled(m)
    \/ ConnectionLost

\* a holding register and an input register at adjacent addresses
MixedRegisters ==
    << Reg("u", BaseAddress, "uint16", 0, 3, <<>>),
       Reg("i", BaseAddress + 1, "uint16", 0, 4, <<>>) >>

InitRead ==
    /\ EngineInit
    /\ request = NoRequest
    /\ scenario = Catalog
    /\ \E registers \in {ReadableRegisters, CatalogRegisters, MixedRegisters} :
          config = [registers |-> registers, max_registers_per_read |-> DefaultMaxRegisters]

NextRead ==
    \E t \in Callers :
        \/ \E name \in Names : call_read_register(t, name)
        \/ call_read_all(t)
        \/ \E name \in Names, value \in scenario.writes : call_write_register(t, name, value)
        \/ Yield(t)
        \/ read_register(t)
        \/ read_all(t)
        \/ write_register(t)
        \/ wr_gated(t)
        \/ wr_tx(t)
        \/ wr_io(t)
        \/ wr_sleep(t)
        \/ connect(t)
        \/ connect_locked(t)
        \/ connect_io(t)
        \/ _read_register_group(t)
        \/ rg_gated(t)
        \/ rg_tx(t)
        \/ rg_io(t)
        \/ rg_sleep(t)

\* the wall clock read by datetime.now() moves on by one second while the
\* event loop is idle
Tick ==
    /\ running = NoTask
    /\ now < MaxTime
    /\ now' = now + 1
    /\ UNCHANGED <<client, _connection_lock, _rate_limiter, _monitoring_active,
                   _monitoring_task, _last_values, _last_read_time>>
    /\ UNCHANGED <<pc, stack, running, last, localVars, histVars, fixedVars>>

\* the catalog of the polled workload: the float32 registers "x" and "y" are
\* adjacent and polled every PollInterval seconds, "n" is not auto-polled
PolledRegisters ==
    << Reg("x", BaseAddress, "float32", 0, 3, <<PollInterval>>),
       Reg("y", BaseAddress + 2, "float32", 0, 3, <<PollInterval>>),
       Reg("n", BaseAddress + 5, "uint16", 0, 3, <<>>) >>

\* one caller monitors and reads single registers while the clock runs
Polled ==
    Workload({"start_monitoring", "read_register"}, {}, {0}, {FALSE}, FALSE)

\* one caller monitors with an observer that may raise while the clock runs; the
\* device's words make 0.0 and NaN
Raising ==
    [Workload({"start_monitoring"}, {}, {0, 32704}, {TRUE}, FALSE)
        EXCEPT !.raising = TRUE]

\* one caller reads and writes single registers while the clock runs
Written ==
    Workload({"read_register", "write_register"}, {}, {0}, {}, FALSE)

InitPoll ==
    /\ EngineInit
    /\ request = NoRequest
    /\ scenario \in {Polled, Raising, Written}
    /\ config = [registers |-> PolledRegisters,
                 max_registers_per_read |-> DefaultMaxRegisters]

NextPoll ==
    \/ \E t \in Callers :
          \/ \E name \in Names : call_read_register(t, name)
          \/ \E cb \in scenario.callbacks : call_start_monitoring(t, cb)
          \/ \E name \in Names, value \in scenario.writes :
                call_write_register(t, name, value)
          \/ Yield(t)
          \/ start_monitoring(t)
          \/ read_register(t)
          \/ write_register(t)
          \/ wr_gated(t)
          \/ wr_tx(t)
          \/ wr_io(t)
          \/ wr_sleep(t)
    \/ \E t \in Tasks :
          \/ connect(t)
          \/ connect_locked(t)
          \/ connect_io(t)
          \/ _read_register_group(t)
          \/ rg_wait(t)
          \/ rg_gated(t)
          \/ rg_tx(t)
          \/ rg_io(t)
          \/ rg_sleep(t)
    \/ \E m \in Mons :
          \/ loop_start(m)
          \/ _monitoring_loop(m)
          \/ loop_groups(m)
          \/ loop_cb(m)
          \/ loop_tick(m)
          \/ loop_err(m)
    \/ Tick

\* the catalog of the fair runs: two registers polled on every tick of the
\* loop, in groups of their own
LiveRegisters ==
    << Reg("r", BaseAddress, "uint16", 0, 3, <<0>>),
       Reg("a", BaseAddress + 2, "uint16", 0, 3, <<0>>) >>

\* one caller monitors on a reliable transport; the device rejects every read
\* of the registers in `rejects`
Live(rejects) ==
    [Workload({"start_monitoring"}, {}, {0, 1}, {FALSE}, FALSE)
        EXCEPT !.reliable = TRUE, !.rejects = rejects]

\* one caller monitors, stops and disconnects while the other reads, on a
\* transport that may fail
Stopping ==
    Workload({"disconnect", "start_monitoring", "stop_monitoring"},
             {"read_register"}, {0}, {FALSE}, FALSE)

\* one caller connects, disconnects and reads a register while the other
\* writes and reads the whole catalog, on a transport that may fail
Reconnecting ==
    [Workload({"connect", "disconnect", "read_register"},
              {"read_all", "write_register"}, {0}, {}, FALSE)
        EXCEPT !.writes = {PyInt(0)}]

InitLive ==
    /\ EngineInit
    /\ request = NoRequest
    /\ scenario \in {Live({}), Live({"r"}), Live({"a"}), Stopping, Reconnecting}
    /\ config = [registers |-> LiveRegisters,
                 max_registers_per_read |-> DefaultMaxRegisters]

\* the steps task t takes once the event loop runs it: everything but the
\* start of a new call
Step(t) ==
    \/ Yield(t)
    \/ disconnect(t)
    \/ disc_lock(t)
    \/ disc_wait(t)
    \/ disc_locked(t)
    \/ start_monitoring(t)
    \/ stop_monitoring(t)
    \/ stop_wait(t)
    \/ read_register(t)
    \/ read_all(t)
    \/ write_register(t)
    \/ wr_wait(t)
    \/ wr_gated(t)
    \/ wr_tx(t)
    \/ wr_io(t)
    \/ wr_sleep(t)
    \/ connect(t)
    \/ connect_wait(t)
    \/ connect_locked(t)
    \/ connect_io(t)
    \/ _read_register_group(t)
    \/ rg_wait(t)
    \/ rg_gated(t)
    \/ rg_tx(t)
    \/ rg_io(t)
    \/ rg_sleep(t)
    \/ loop_start(t)
    \/ _monitoring_loop(t)
    \/ loop_groups(t)
    \/ loop_cb(t)
    \/ loop_tick(t)
    \/ loop_err(t)
    \/ Cancelled(t)

NextLive ==
    \/ \E t \in Callers :
          \/ call_connect(t)
          \/ call_disconnect(t)
          \/ \E name \in Names : call_read_register(t, name)
          \/ call_read_all(t)
          \/ \E name \in Names, value \in scenario.writes :
                call_write_register(t, name, value)
          \/ \E cb \in scenario.callbacks : call_start_monitoring(t, cb)
          \/ call_stop_monitoring(t)
    \/ \E t \in Tasks : Step(t)

\* asyncio runs every task that is ready, every sleep ends and the transport
\* answers every call
Fairness == \A t \in Tasks : SF_vars(Step(t))

NextGroup == GroupRegisters

\* one register, one value to write and the words its device holds
InitValue ==
    /\ EngineInit
    /\ config = EngineConfig
    /\ scenario = Quiet
    /\ \E reg \in ValueRegisters :
         \E value \in WrittenValues(reg.type), registers \in DeviceWords(reg.type) :
           request = [kind |-> "register", reg |-> reg, value |-> value,
                      registers |-> registers]

NextValue == WriteValue \/ EchoRead \/ ReadWords

\* one call of the converter: a value to encode, or a list of words to decode
\* (for a text, with the configured length)
InitConv ==
    /\ EngineInit
    /\ config = EngineConfig
    /\ scenario = Quiet
    /\ \E data_type \in DataTypes :
         \/ \E value \in EncodedValues(data_type), byte_order \in OrdersOf(data_type),
               length \in Lengths(data_type) :
               request = [kind |-> "encode", value |-> value, data_type |-> data_type,
                          byte_order |-> byte_order, length |-> length,
                          registers |-> <<>>]
         \/ \E n \in 0..MaxRegisters, byte_order \in OrdersOf(data_type),
               length \in ConfiguredLengths(data_type) :
               \E registers \in [1..n -> WordSamples] :
                 request = [kind |-> "decode", value |-> None, data_type |-> data_type,
                            byte_order |-> byte_order, length |-> length,
                            registers |-> registers]

NextConv == Encode \/ DecodeEncoded \/ Decode

\* no engine yet, and one configuration document to construct it from
InitLoad ==
    /\ EngineInit
    /\ config = NoConfig
    /\ scenario = Quiet
    /\ \/ \E file \in FileStates, connection \in ConnectionDocs :
             request = [kind |-> "load", file |-> file, connection |-> connection,
                        registers |-> <<GoodRegister>>]
       \/ \E n \in 0..MaxEntries :
             \E registers \in [1..n -> RegisterDocs] :
               request = [kind |-> "load", file |-> "ok", connection |-> GoodConnection,
                          registers |-> registers]

NextLoad == Construct

Spec == Init /\ [][Next]_vars
SpecRead == InitRead /\ [][NextRead]_vars
SpecPoll == InitPoll /\ [][NextPoll]_vars
SpecLive == InitLive /\ [][NextLive]_vars /\ Fairness
SpecGroup == InitGroup /\ [][NextGroup]_vars
SpecValue == InitValue /\ [][NextValue]_vars
SpecConv == InitConv /\ [][NextConv]_vars
SpecLoad == InitLoad /\ [][NextLoad]_vars

\* ------------------------------------------------------------ properties
\* the task has issued a read or write primitive and awaits its response
InFlight(t) == pc[t] \in {"rg_io", "wr_io"}

\* no polling task exists that has not ended
NoPolling == \A m \in Mons : ~Alive(m)

\* every polling task has ended or has its cancellation pending, so that it
\* runs no further iteration and issues no further transaction
NoActivePolling == \A m \in Mons : Alive(m) => cancel_req[m]

\* the call `op` of caller t has just returned normally to the caller's code
JustReturned(t, op) ==
    At(t, "idle") /\ last[t] = [op |-> op, out |-> "ok", exc |-> "none"]

\* C1: in every reachable state at most one transport transaction (a group
\* read or a write) is in flight, whatever number of foreground readers and
\* writers run together with the monitoring loop.
OneTransactionInFlight == Cardinality({t \in Tasks : InFlight(t)}) <= 1

\* C1, reached: a poll transaction is in flight while a foreground caller is
\* queued at the rate gate
GateContended ==
    \E m \in Mons, t \in Callers :
        InFlight(m) /\ pc[t] \in {"rg_wait", "wr_wait"}

\* C2: every transaction, however it ends, is followed by the spacing wait
\* before the rate gate is released: no transaction is in flight while the
\* transaction before it left the gate without that wait.
SpacedTransactions == \A t \in Tasks : InFlight(t) => ~unspaced

\* C3: when any call to stop_monitoring() returns (called directly or from
\* disconnect()), polling has terminated: no polling task is left that can run
\* another iteration or transaction, for every interleaving of
\* start_monitoring, stop_monitoring and disconnect.
StopReturnsAfterTaskEnded ==
    \A t \in Callers :
        (JustReturned(t, "stop_monitoring") \/ At(t, "disc_lock")) => NoActivePolling

\* C4: disconnect() stops monitoring before it closes the transport: close()
\* is never called while a polling task is alive, and when disconnect()
\* returns monitoring is idle and the engine holds no client.
CloseAfterPollingEnded ==
    \A t \in Callers :
        /\ (At(t, "disc_locked") /\ client # "none") => NoActivePolling
        /\ (JustReturned(t, "disconnect") \/ At(t, "aexit_ret")) =>
               (client = "none" /\ ~_monitoring_active /\ NoActivePolling)

\* C5: connect() is idempotent and race-free: the engine never has more than
\* one open transport connection, whether connect() is called directly or by
\* the automatic reconnect of a read or write, and at most one task at a time
\* is past the connection lock.
OneConnection ==
    /\ liveConns <= 1
    /\ Cardinality({t \in Tasks : pc[t] \in {"connect_locked", "connect_io"}}) <= 1
    /\ \A t \in Tasks : pc[t] = "connect_io" => (client = "down" /\ liveConns = 0)

\* C5, reached: a read or write that found the engine disconnected called
\* connect(), and by the time it owns the lock another caller's connect() has
\* opened the connection
ConnectRaced ==
    \E t \in Tasks :
        At(t, "connect_locked") /\ reconnects[t] = 1 /\ client = "up" /\ liveConns = 1

\* C6: leaving the `async with` scope, normally or by an exception raised in
\* the body, the transport close() has been called, the engine holds no
\* client and monitoring is stopped.
ScopeReleased ==
    \A t \in Callers :
        JustReturned(t, "aexit") =>
            (closed[t] /\ client = "none" /\ ~_monitoring_active /\ NoPolling)

\* C6, reached: the scope was left by an exception and __aexit__ has returned
ScopeLeftByException ==
    \E t \in Callers : JustReturned(t, "aexit") /\ wargs[t] = <<"raised">>

\* C7: after a poll of a group the observer has been invoked with
\* (name, old, new) for exactly the registers whose new value differs from the
\* value cached before the read, old being None when nothing was cached.
CallbackOnEveryChange ==
    \A m \in Mons :
        (At(m, "loop_groups") /\ callback[m] /\ DOMAIN res[m] # {}) =>
            fired[m] = {<<n, Get(before[m], n), res[m][n]>> : n \in
                           {x \in DOMAIN res[m] : Get(before[m], x) # <<res[m][x]>>}}

\* C8: no retry inside a call: a read_register or write_register call issues
\* at most one transaction, read_all at most one per group, a failed read
\* surfaces to the caller, and a reconnect happens at most once per
\* transaction and only before the transaction is issued.
NoRetry ==
    \A t \in Tasks :
        /\ txCount[t] <= 1
        /\ reconnects[t] <= 1
        /\ pc[t] \in {"connect", "connect_wait", "connect_locked", "connect_io"}
               => txCount[t] = 0
        /\ (t \in Callers /\ At(t, "idle") /\ last[t].op = "read_register"
               /\ res[t] = EmptyDict) => last[t].out = "raised"

\* C8, reached: a caller's read reconnected once, issued its one transaction,
\* and the failure of that transaction has reached the caller
FailureSurfaced ==
    \E t \in Callers :
        /\ At(t, "idle") /\ last[t] = [op |-> "read_register", out |-> "raised", exc |-> "ReadError"]
        /\ txCount[t] = 1 /\ reconnects[t] = 1

\* the groups laid end to end
RECURSIVE Flatten(_)
Flatten(gs) == IF gs = <<>> THEN <<>> ELSE Head(gs) \o Flatten(Tail(gs))

\* C9: the groups partition the input (no register lost, added or repeated),
\* inside a group every register starts where the previous one ends, and the
\* groups come in ascending address order.
GroupsPartitionInput ==
    grouped =>
        LET flat == Flatten(grouping_result)
        IN  /\ Len(flat) = Len(config.registers)
            /\ {flat[i] : i \in 1..Len(flat)} =
                   {config.registers[i] : i \in 1..Len(config.registers)}
            /\ \A k \in 1..Len(grouping_result) :
                   /\ grouping_result[k] # <<>>
                   /\ \A i \in 2..Len(grouping_result[k]) :
                          grouping_result[k][i].address =
                              grouping_result[k][i-1].address
                                  + wordCount(grouping_result[k][i-1])
            /\ \A i, j \in 1..Len(flat) : i < j => flat[i].address <= flat[j].address

\* C9, reached: an input that is not in address order has been split into
\* several groups, one of them holding more than one register
UnsortedInputGrouped ==
    /\ grouped
    /\ Len(grouping_result) >= 2
    /\ \E k \in 1..Len(grouping_result) : Len(grouping_result[k]) >= 2
    /\ \E i \in 1..(Len(config.registers) - 1) :
           config.registers[i].address > config.registers[i+1].address

\* C10: the word span of every group is at most max_registers_per_read, so no
\* read transaction asks for more words than the device limit.
GroupSpanWithinLimit ==
    grouped =>
        \A k \in 1..Len(grouping_result) :
            count(grouping_result[k]) <= config.max_registers_per_read

\* the run 100 (uint16), 101 (uint16), 102 (float32) of the grouping example
ExampleRun ==
    << Reg(<<"r", 1>>, BaseAddress, "uint16", 0, 3, <<>>),
       Reg(<<"r", 2>>, BaseAddress + 1, "uint16", 0, 3, <<>>),
       Reg(<<"r", 3>>, BaseAddress + 2, "float32", 0, 3, <<>>) >>

\* C11: groups are maximal: of two groups adjacent in the output the second
\* does not start where the first ends, or their combined span exceeds
\* max_registers_per_read; the example run with the default limit of 125 is
\* one group spanning four words.
GroupsMaximal ==
    grouped =>
        /\ \A k \in 1..(Len(grouping_result) - 1) :
               LET G == grouping_result[k]
                   H == grouping_result[k + 1]
               IN  \/ start_address(H) # end_address(G)
                   \/ end_address(H) - start_address(G) > config.max_registers_per_read
        /\ (config.registers = ExampleRun
                /\ config.max_registers_per_read = DefaultMaxRegisters) =>
               /\ grouping_result = <<ExampleRun>>
               /\ count(grouping_result[1]) = 4

\* C11, reached: two adjacent groups of which the second starts exactly where
\* the first ends, split because together they exceed the limit
GroupSplitAtLimit ==
    /\ grouped
    /\ \E k \in 1..(Len(grouping_result) - 1) :
           start_address(grouping_result[k + 1]) = end_address(grouping_result[k])

\* ---------------------------------------------------------------- C12
\* the register the write_register call of t names (none for an unknown name)
WriteTarget(t) ==
    LET reg == _get_registers_by_name(wargs[t][1])
    IN  IF IsOk(reg) THEN reg[2] ELSE [scale_factor |-> None]

\* C12: a write_register call on a register whose scale factor is 0 ends, in the
\* step that starts it, by raising WriteError: the gate is not acquired, no
\* connection is attempted, no transaction is issued and the cache is unchanged.
ZeroScaleWriteRejected ==
    [][\A t \in Callers :
          (At(t, "wr") /\ WriteTarget(t).scale_factor = Float(0) /\ pc'[t] # pc[t]) =>
              /\ pc'[t] = "idle"
              /\ last'[t] = [op |-> "write_register", out |-> "raised",
                             exc |-> "WriteError"]
              /\ UNCHANGED <<client, _connection_lock, _rate_limiter, _last_values,
                             _last_read_time, txCount, reconnects, liveConns,
                             unspaced>>]_vars

\* a caller's write to the zero-scale register has just been refused
ZeroScaleWriteRaised ==
    \E t \in Callers :
        /\ last[t] = [op |-> "write_register", out |-> "raised", exc |-> "WriteError"]
        /\ WriteTarget(t).scale_factor = Float(0)
        /\ pc[t] = "idle"
        /\ txCount[t] = 0
        /\ _rate_limiter.holder # t

\* ---------------------------------------------------------------- C13
\* the raw value (v - o) / s of a scaled write, when it is a whole number
RawOf(reg, value) ==
    (Tenths(value) - Tenths(reg.offset)) \div Tenths(reg.scale_factor)

HasRaw(reg, value) ==
    /\ (Tenths(value) - Tenths(reg.offset)) % Tenths(reg.scale_factor) = 0
    /\ RawOf(reg, value) \in 0..(SignBit - 1)

\* a one-word integer register with a scale factor s # 0 and an offset o
ScaledInteger(reg) ==
    /\ reg.type \in {"uint16", "int16"}
    /\ reg.scale_factor # None /\ reg.offset # None
    /\ Tenths(reg.scale_factor) > 0

\* C13: writing v to a one-word integer register with scale factor s # 0 and
\* offset o sends the raw value (v - o) / s, and reading the echoed raw value
\* back returns v (v = 22.5, s = 0.1, o = 0: 225 is sent, 22.5 is read back).
ScalingRoundTrip ==
    (/\ request.kind = "register"
     /\ ScaledInteger(request.reg)
     /\ HasRaw(request.reg, request.value)
     /\ encoded # NotRun) =>
        /\ encoded = Ok(<<RawOf(request.reg, request.value)>>)
        /\ echoed # NotRun =>
               /\ IsOk(echoed)
               /\ Tenths(echoed[2]) = Tenths(request.value)

\* ---------------------------------------------------------------- C14
\* C14: the engine writes and reads a 32-bit register (uint32, int32, float32)
\* in the word order of the register's configured byte_order: "big" puts the
\* high word first, "little" the low word first.
ConfiguredWordOrder ==
    (/\ request.kind = "register"
     /\ request.reg.type \in {"uint32", "int32", "float32"}) =>
        /\ encoded # NotRun =>
               encoded = value_to_registers(request.value, request.reg.type,
                                            request.reg.byte_order, request.reg.length)
        /\ decoded # NotRun =>
               decoded = convert_from_registers(request.registers, request.reg.type,
                                                request.reg.byte_order)

\* ---------------------------------------------------------------- C15
\* lowest <= value <= highest for ints
Between(value, lowest, highest) ==
    /\ value[1] = "int"
    /\ value[2] > lowest[2] \/ (value[2] = lowest[2] /\ value[3] >= lowest[3])
    /\ value[2] < highest[2] \/ (value[2] = highest[2] /\ value[3] <= highest[3])

\* the accepted range of an integer type
AcceptedRange(data_type) ==
    CASE data_type = "uint16" -> <<PyPair(0, 0), PyPair(0, 65535)>>
      [] data_type = "int16"  -> <<PyPair(-1, 32768), PyPair(0, 32767)>>
      [] data_type = "uint32" -> <<PyPair(0, 0), PyPair(65535, 65535)>>
      [] data_type = "int32"  -> <<PyPair(-32768, 0), PyPair(32767, 65535)>>

IntegerTypes == {"uint16", "int16", "uint32", "int32"}

\* the request encodes a value of an integer type that is in the type's range
EncodesInRange ==
    /\ request.kind = "encode"
    /\ request.data_type \in IntegerTypes
    /\ Between(request.value, AcceptedRange(request.data_type)[1],
               AcceptedRange(request.data_type)[2])

\* C15: for uint16, int16, uint32 and int32, every value of the type's range and
\* either word order, encoding gives words in [0, 65535] and decoding them
\* with the same type and order gives the value back.
IntegerRoundTrip ==
    (EncodesInRange /\ encoded # NotRun) =>
        /\ IsOk(encoded)
        /\ \A i \in DOMAIN encoded[2] : encoded[2][i] \in 0..65535
        /\ echoed # NotRun => echoed = Ok(request.value)

\* the lowest int32 went through the low-word-first encoding and back
NegativeRoundTrip ==
    /\ request.kind = "encode"
    /\ request.data_type = "int32"
    /\ request.byte_order = "little"
    /\ request.value = PyPair(-32768, 0)
    /\ encoded = Ok(<<0, 32768>>)
    /\ echoed = Ok(request.value)

\* ---------------------------------------------------------------- C16
\* the high and low word of a two-word list in the given order
HighOf(registers, byte_order) == IF byte_order = "big" THEN registers[1] ELSE registers[2]
LowOf(registers, byte_order)  == IF byte_order = "big" THEN registers[2] ELSE registers[1]

\* C16: signed types are two's complement.  Decoding int16 maps a word
\* w >= 0x8000 to w - 0x10000 and encoding maps a negative v to v + 0x10000;
\* int32 does the same at 0x80000000 with 0x100000000 on the 32-bit pattern.
\* -1 is the word 0xFFFF as int16 and the words 0xFFFF, 0xFFFF as int32.
TwosComplement ==
    /\ (request.kind = "decode" /\ decoded # NotRun) =>
          /\ (request.data_type = "int16" /\ Len(request.registers) = 1) =>
                 LET w == request.registers[1]
                 IN  decoded = Ok(PyInt(IF w >= 32768 THEN w - 65536 ELSE w))
          /\ (request.data_type = "int32" /\ Len(request.registers) = 2) =>
                 LET hi == HighOf(request.registers, request.byte_order)
                     lo == LowOf(request.registers, request.byte_order)
                 IN  decoded = Ok(PyPair(IF hi >= 32768 THEN hi - 65536 ELSE hi, lo))
    /\ (EncodesInRange /\ encoded # NotRun) =>
          /\ request.data_type = "int16" =>
                 LET v == request.value[2] * 65536 + request.value[3]
                 IN  encoded = Ok(<<IF v < 0 THEN v + 65536 ELSE v>>)
          /\ request.data_type = "int32" =>
                 LET hi == request.value[2]
                 IN  /\ IsOk(encoded)
                     /\ HighOf(encoded[2], request.byte_order) =
                            (IF hi < 0 THEN hi + 65536 ELSE hi)
                     /\ LowOf(encoded[2], request.byte_order) = request.value[3]
          /\ (request.value = PyInt(-1) /\ request.data_type = "int16") =>
                 encoded = Ok(<<65535>>)
          /\ (request.value = PyInt(-1) /\ request.data_type = "int32") =>
                 encoded = Ok(<<65535, 65535>>)
    /\ (request.kind = "decode" /\ decoded # NotRun
            /\ request.data_type = "int16" /\ request.registers = <<65535>>) =>
          decoded = Ok(PyInt(-1))
    /\ (request.kind = "decode" /\ decoded # NotRun
            /\ request.data_type = "int32" /\ request.registers = <<65535, 65535>>) =>
          decoded = Ok(PyInt(-1))

\* -1 was encoded as int32 and the words 0xFFFF, 0xFFFF were decoded as int32
MinusOneEncoded ==
    /\ request.kind = "encode"
    /\ request.data_type = "int32"
    /\ request.value = PyInt(-1)
    /\ encoded = Ok(<<65535, 65535>>)
    /\ echoed = Ok(PyInt(-1))

\* ---------------------------------------------------------------- C17
\* a list of words in reverse
Reversed(registers) == [i \in 1..Len(registers) |-> registers[Len(registers) + 1 - i]]

OtherOrder(byte_order) == IF byte_order = "big" THEN "little" ELSE "big"

\* C17: for uint32 and int32 the order "big" decodes [w0, w1] as the pattern
\* (w0 << 16) | w1 and "little" as (w1 << 16) | w0 (int32 then applies its sign
\* adjustment); encoding a value with one order gives the list of the other
\* order reversed, "big" being high word first.
WordOrderFormulas ==
    /\ (request.kind = "decode" /\ decoded # NotRun /\ Len(request.registers) = 2) =>
          LET w0 == request.registers[1]
              w1 == request.registers[2]
              hi == IF request.byte_order = "big" THEN w0 ELSE w1
              lo == IF request.byte_order = "big" THEN w1 ELSE w0
          IN  /\ request.data_type = "uint32" => decoded = Ok(<<"int", hi, lo>>)
              /\ request.data_type = "int32" =>
                     decoded = Ok(<<"int", IF hi >= 32768 THEN hi - 65536 ELSE hi, lo>>)
    /\ (request.kind = "encode" /\ request.data_type \in {"uint32", "int32"}
            /\ IsOk(encoded)) =>
          LET other == value_to_registers(request.value, request.data_type,
                                          OtherOrder(request.byte_order), request.length)
          IN  /\ IsOk(other)
              /\ encoded[2] = Reversed(other[2])
              /\ request.byte_order = "big" =>
                     encoded[2] = <<request.value[2] % 65536, request.value[3]>>

\* the words [1, 0] were decoded low word first as the uint32 value 1
LowWordFirstDecoded ==
    /\ request.kind = "decode"
    /\ request.data_type = "uint32"
    /\ request.byte_order = "little"
    /\ request.registers = <<1, 0>>
    /\ decoded = Ok(PyInt(1))

\* ---------------------------------------------------------------- C18
SupportedTypes == {"uint16", "int16", "uint32", "int32", "float32", "string"}

\* the word count of a type: 1, 2, or the configured length of a string
ExpectedWords(data_type, length) ==
    CASE data_type \in {"uint16", "int16"} -> 1
      [] data_type \in {"uint32", "int32", "float32"} -> 2
      [] data_type = "string" -> length

\* the list decoded has not the word count of its type
WordCountMismatch ==
    /\ request.data_type \in SupportedTypes
    /\ Len(request.registers) # ExpectedWords(request.data_type, request.length)

\* the int encoded is outside the accepted range of its integer type
OutOfRange ==
    /\ request.data_type \in IntegerTypes
    /\ request.value[1] = "int"
    /\ ~Between(request.value, AcceptedRange(request.data_type)[1],
                AcceptedRange(request.data_type)[2])

\* C18: the converter raises DataConversionError, and returns nothing, when
\* decode gets a word count other than the type's (1; 2; the configured length
\* for string) or an unsupported type, and when encode gets a value outside the
\* type's accepted range or an unsupported type.
ConversionErrorsRaised ==
    /\ (request.kind = "decode" /\ decoded # NotRun) =>
          ((WordCountMismatch \/ request.data_type \notin SupportedTypes) =>
               decoded = Raised("DataConversionError"))
    /\ (request.kind = "encode" /\ encoded # NotRun) =>
          ((OutOfRange \/ request.data_type \notin SupportedTypes) =>
               encoded = Raised("DataConversionError"))

\* ---------------------------------------------------------------- C19
\* the text right-padded with spaces, or cut, to n characters
PaddedText(chars, n) == [i \in 1..n |-> IF i <= Len(chars) THEN chars[i] ELSE 32]

\* every character is ASCII
AsciiText(chars) == \A i \in DOMAIN chars : chars[i] < 128

\* the request encodes a text with a `length`
EncodesText ==
    /\ request.kind = "encode"
    /\ request.data_type = "string"
    /\ request.value[1] = "str"
    /\ request.length >= 1

\* C19: encoding a text with a `length` gives exactly `length` words, the text
\* right-padded with spaces or cut, two ASCII bytes per word, high byte first;
\* decoding them gives back an ASCII text of at most 2 * length characters that
\* does not end in a space or NUL ("TEST" with length 4 decodes to "TEST").
TextRoundTrip ==
    (EncodesText /\ encoded # NotRun) =>
        LET chars == request.value[2]
            n     == request.length
        IN  /\ IsOk(encoded)
            /\ Len(encoded[2]) = n
            /\ AsciiText(chars) =>
                   \A i \in 1..n :
                       encoded[2][i] = PaddedText(chars, 2 * n)[2 * i - 1] * 256
                                       + PaddedText(chars, 2 * n)[2 * i]
            /\ (/\ AsciiText(chars)
                /\ Len(chars) <= 2 * n
                /\ chars = <<>> \/ chars[Len(chars)] \notin {32, 0}
                /\ echoed # NotRun) => echoed = Ok(request.value)

\* "TEST" was encoded with length 4 and decoded to "TEST"
TestTextDecoded ==
    /\ EncodesText
    /\ request.value = Str(<<84, 69, 83, 84>>)
    /\ request.length = 4
    /\ encoded = Ok(<<21573, 21332, 8224, 8224>>)
    /\ echoed = Ok(Str(<<84, 69, 83, 84>>))

\* ---------------------------------------------------------------- C20
\* an optional text is present and not empty
Present(text) == text # <<>> /\ text # <<"">>

\* the rules of the claim, on the document loaded
RulesHold ==
    /\ request.connection.type \in {"tcp", "rtu"}
    /\ request.connection.type = "tcp" => Present(request.connection.host)
    /\ request.connection.type = "rtu" => Present(request.connection.port_name)
    /\ \A i \in DOMAIN request.registers :
          LET reg == request.registers[i]
          IN  /\ reg.type \in {"uint16", "int16", "uint32", "int32", "float32", "string"}
              /\ reg.function_code \in {1, 2, 3, 4, 5, 6, 15, 16}
              /\ reg.byte_order \in {"big", "little"}
              /\ reg.type = "string" => reg.length # 0
    /\ \A i, j \in DOMAIN request.registers :
          i # j => request.registers[i].name # request.registers[j].name

\* C20: loading returns a ModbusConfig only if the connection type is tcp or
\* rtu, a tcp connection has a host, an rtu connection has a port_name, every
\* register's type, function_code and byte_order are of the enumerated sets,
\* every string register has a length and register names are distinct; if a
\* rule fails, or the file is missing or malformed, the loader raises
\* ConfigurationError and no engine is constructed.
ConfigRulesEnforced ==
    (request.kind = "load" /\ loaded # NotRun) =>
        /\ IsOk(loaded) => (request.file = "ok" /\ RulesHold)
        /\ ~(request.file = "ok" /\ RulesHold) =>
               /\ loaded = Raised("ConfigurationError")
               /\ config = NoConfig

\* a document whose only fault is a repeated register name was refused
DuplicateNameRefused ==
    /\ request.kind = "load"
    /\ request.file = "ok"
    /\ Len(request.registers) = 2
    /\ request.registers[1] = request.registers[2]
    /\ request.registers[1] = RegisterDoc("a", "string", 3, "little", 2)
    /\ loaded = Raised("ConfigurationError")
    /\ config = NoConfig

\* ---------------------------------------------------------------- C21
\* the registers of the catalog that carry this name
Catalogued(name) ==
    {config.registers[i] : i \in {j \in DOMAIN config.registers :
                                      config.registers[j].name = name}}

\* the call of t is at its lookup, with this name
LooksUp(t, name) ==
    /\ running = t
    /\ pc[t] \in {"rr", "wr"}
    /\ wargs[t][1] = name

\* C21: read_register(name) and write_register(name, v) with a name the catalog
\* does not have end, in the step of the lookup, by raising ConfigurationError:
\* the gate is not acquired, no connection is attempted, no transaction is issued
\* and the cache is unchanged.  With a name of the catalog the lookup of
\* read_register gives the one register that has this name.
UnknownNameRejected ==
    [][\A t \in Callers : \A name \in Names \cup scenario.unknown :
          (LooksUp(t, name) /\ pc'[t] # pc[t]) =>
              IF Catalogued(name) = {}
              THEN /\ pc'[t] = "idle"
                   /\ last'[t] = [op |-> last[t].op, out |-> "raised",
                                  exc |-> "ConfigurationError"]
                   /\ UNCHANGED <<client, _connection_lock, _rate_limiter,
                                  _last_values, _last_read_time, txCount,
                                  reconnects, liveConns, unspaced>>
              ELSE /\ Cardinality(Catalogued(name)) = 1
                   /\ last'[t].exc # "ConfigurationError"
                   /\ pc[t] = "rr" => /\ Len(grp'[t]) = 1
                                      /\ grp'[t][1] \in Catalogued(name)]_vars

\* a call under an unknown name has just been refused while another task held
\* the gate, with values in the cache
UnknownNameRaised ==
    \E t \in Callers :
        /\ last[t].op \in {"read_register", "write_register"}
        /\ last[t].out = "raised" /\ last[t].exc = "ConfigurationError"
        /\ wargs[t][1] \notin Names
        /\ pc[t] = "idle"
        /\ _rate_limiter.holder \notin {t, NoTask}
        /\ _last_values # EmptyDict

\* ---------------------------------------------------------------- C22
\* the polling tasks that exist
LiveTasks == {m \in Mons : Alive(m)}

\* C22: start_monitoring() while monitoring is running is a no-op: it returns
\* without an error, creates no polling task and leaves the task reference, the
\* existing tasks and their callbacks as they are.  stop_monitoring() leaves the
\* engine idle (flag cleared at once, task reference dropped when the awaited
\* task has ended), and start_monitoring() on an idle engine creates exactly one
\* new task, which becomes the engine's task and has the callback given.
StartWhileRunningIsNoOp ==
    [][\A t \in Callers :
          /\ (At(t, "start_monitoring") /\ _monitoring_active) =>
                 /\ last'[t] = [op |-> "start_monitoring", out |-> "ok", exc |-> "none"]
                 /\ pc'[t] = "idle"
                 /\ UNCHANGED <<_monitoring_active, _monitoring_task, callback>>
                 /\ \A m \in Mons : pc'[m] = pc[m] /\ cancel_req'[m] = cancel_req[m]
          /\ (At(t, "start_monitoring") /\ ~_monitoring_active) =>
                 /\ last'[t] = [op |-> "start_monitoring", out |-> "ok", exc |-> "none"]
                 /\ _monitoring_active'
                 /\ \E m \in Mons \ LiveTasks :
                        /\ {x \in Mons : Alive(x)' } = LiveTasks \cup {m}
                        /\ _monitoring_task' = m
                        /\ callback' = [callback EXCEPT ![m] = wargs[t][1]]
          /\ At(t, "stop_monitoring") => ~_monitoring_active'
          /\ (pc[t] = "stop_wait" /\ pc'[t] # "stop_wait") =>
                 /\ _monitoring_task' = NoTask
                 /\ ~Alive(awaiting[t])]_vars

\* a start_monitoring() call has just returned while the engine's polling task,
\* started earlier, is in the middle of a read: the call was a no-op
StartedWhileRunning ==
    \E t \in Callers :
        /\ last[t] = [op |-> "start_monitoring", out |-> "ok", exc |-> "none"]
        /\ running = t
        /\ _monitoring_active
        /\ _monitoring_task \in Mons
        /\ pc[_monitoring_task] = "rg_io"
        /\ Cardinality(LiveTasks) = 1

\* ---------------------------------------------------------------- C23
\* the task whose step this is holds the rate gate or the connection lock
StepUnderLock ==
    \E t \in Tasks :
        /\ pc'[t] # pc[t]
        /\ running \in {t, NoTask}
        /\ _rate_limiter.holder = t \/ _connection_lock.holder = t

\* C23: every step of a task that assigns self.client, or changes _last_values
\* or _last_read_time, is taken by a task that holds the rate gate or the
\* connection lock.  (The transport dropping the connection is no assignment
\* of the engine: it changes client.connected, not the reference.)
MutationsUnderLock ==
    [][((client' # client /\ pc' # pc)
          \/ (client = "none") # (client' = "none")
          \/ _last_values' # _last_values
          \/ _last_read_time' # _last_read_time) => StepUnderLock]_vars

\* a reader has just stored its values while it holds the gate and another task
\* waits for it, and a client has been assigned
CacheWrittenUnderGate ==
    \E t \in Tasks :
        /\ pc[t] = "rg_sleep"
        /\ _rate_limiter.holder = t
        /\ _rate_limiter.waiters # <<>>
        /\ DOMAIN res[t] # {}
        /\ \A n \in DOMAIN res[t] : Get(_last_values, n) = <<res[t][n]>>
        /\ client = "up"

\* ---------------------------------------------------------------- C24
\* the value a register gets from response.registers of a read that started
\* at start: its slice decoded, times scale_factor, plus offset, each applied
\* when it is configured
ExpectedValue(reg, start, registers) ==
    LET first   == reg.address - start
        raw     == [i \in 1..wordCount(reg) |-> registers[first + i]]
        raw_value == registers_to_value(raw, reg.type, reg.length, "big")[2]
        scaled  == IF reg.scale_factor = None THEN raw_value
                   ELSE Mul(raw_value, reg.scale_factor)
    IN  IF reg.offset = None THEN scaled ELSE Add(scaled, reg.offset)

\* the one transaction of the group read of t asks for the words from the first
\* register's address up to the end of the last register
OneSpanningRead(t) ==
    LET first_reg == grp[t][1]
        last_reg  == grp[t][Len(grp[t])]
    IN  /\ Len(wire[t]) = 1
        /\ wire[t][1].primitive \in {"read_holding_registers", "read_input_registers"}
        /\ wire[t][1].address = first_reg.address
        /\ wire[t][1].count = last_reg.address + wordCount(last_reg) - first_reg.address

\* C24: a group read issues exactly one read transaction, at the address of the
\* group's first register and for last.address + wordCount(last) - first.address
\* words; every register of the group is decoded from the words
\* [reg.address - startAddress, reg.address - startAddress + wordCount(reg)) of
\* the response, and the value returned and cached for it is
\* decoded * scale_factor + offset, each applied only when configured.
GroupReadInOneTransaction ==
    \A t \in Tasks :
        /\ pc[t] = "rg_io" => OneSpanningRead(t) /\ wire[t][1].registers = <<>>
        /\ pc[t] = "rg_sleep" =>
               /\ OneSpanningRead(t)
               /\ Len(wire[t][1].registers) = wire[t][1].count
               /\ DOMAIN res[t] = {grp[t][i].name : i \in DOMAIN grp[t]}
               /\ \A i \in DOMAIN grp[t] :
                      LET value == ExpectedValue(grp[t][i], wire[t][1].address,
                                                 wire[t][1].registers)
                      IN  /\ res[t][grp[t][i].name] = value
                          /\ Get(_last_values, grp[t][i].name) = <<value>>

\* the group of "u", "f" and "c" has been read in one transaction of four
\* words: 0x3F80 for "u" gives 16256 * 0.5 + 1.0, the words 0, 0 for "f" give
\* 0.0 * 0.5 + 1.0, and "c" is the fourth word as it is
ScaledGroupRead ==
    \E t \in Tasks :
        /\ pc[t] = "rg_sleep"
        /\ wire[t] = <<Transaction("read_holding_registers", BaseAddress, 4,
                                   <<16256, 0, 0, 16256>>)>>
        /\ res[t] = ("u" :> Float(81290)) @@ ("f" :> Float(10)) @@ ("c" :> PyInt(16256))
        /\ \A n \in DOMAIN res[t] : _last_values[n] = res[t][n]

\* ---------------------------------------------------------------- C25
\* this step makes the read of t fail: the exception reaches the caller of
\* read_register / read_all, or the handler of the polling loop
ReadFails(t) ==
    IF t \in Callers
    THEN /\ last[t].op \in {"read_register", "read_all"}
         /\ last[t].out = "run"
         /\ last'[t].out = "raised"
    ELSE pc[t] \in {"rg_tx", "rg_io", "connect_io"} /\ pc'[t] = "loop_err"

\* C25: a read that fails (error response, transport exception, unsupported
\* function code, or a conversion error for any register of the group) leaves
\* _last_values and _last_read_time as they were, for every register,
\* including the other registers of the group read.
FailedReadKeepsCache ==
    [][\A t \in Tasks : ReadFails(t) => UNCHANGED <<_last_values, _last_read_time>>]_vars

\* ---------------------------------------------------------------- C26
\* the step in which the write_register call of t has its good response
WriteSucceeds(t) == pc[t] = "wr_io" /\ pc'[t] = "wr_sleep"

\* C26: the step in which a write_register(name, v) succeeds sets the cached
\* value of name to v, the value the caller gave, and changes no other cache
\* entry and no last-read time; every other step of the call, among them the
\* one in which it fails (conversion error, error response, transport
\* exception), leaves both caches unchanged.
WriteCachesUserValue ==
    [][\A t \in Callers :
          (last[t] = [op |-> "write_register", out |-> "run", exc |-> "none"]
             /\ pc'[t] # pc[t]) =>
              IF WriteSucceeds(t)
              THEN /\ DOMAIN _last_values' = DOMAIN _last_values \cup {wargs[t][1]}
                   /\ _last_values'[wargs[t][1]] = wargs[t][2]
                   /\ \A n \in DOMAIN _last_values \ {wargs[t][1]} :
                          _last_values'[n] = _last_values[n]
                   /\ UNCHANGED _last_read_time
              ELSE UNCHANGED <<_last_values, _last_read_time>>]_vars

\* 6.0 has been written to "f" (factor 0.5, offset 1.0): the device got the
\* words of the raw 10.0, the cache has 6.0, and the value and time "u" was
\* read with are still there
UserValueCached ==
    \E t \in Callers :
        /\ pc[t] = "wr_sleep"
        /\ wargs[t] = <<"f", Float(60)>>
        /\ wire[t] = <<Transaction("write_registers", BaseAddress + 1, 2, <<16672, 0>>)>>
        /\ Get(_last_values, "f") = <<Float(60)>>
        /\ "u" \in DOMAIN _last_values /\ "u" \in DOMAIN _last_read_time
        /\ "f" \notin DOMAIN _last_read_time

\* ---------------------------------------------------------------- C27
\* C27: a group read calls the read primitive of the function code of the
\* group's first register: read_holding_registers for 3, read_input_registers
\* for 4; with any other function code it raises ReadError and issues no read
\* transaction.
PrimitiveByFunctionCode ==
    [][\A t \in Tasks :
          (At(t, "rg_tx") /\ pc'[t] # "rg_tx") =>
              LET function_code == grp[t][1].function_code
              IN  IF function_code \in {3, 4}
                  THEN /\ pc'[t] = "rg_io"
                       /\ Len(wire'[t]) = 1
                       /\ function_code = 3 =>
                              wire'[t][1].primitive = "read_holding_registers"
                       /\ function_code = 4 =>
                              wire'[t][1].primitive = "read_input_registers"
                  ELSE /\ wire'[t] = <<>> /\ txCount'[t] = 0
                       /\ t \in Callers => /\ last'[t].out = "raised"
                                            /\ last'[t].exc = "ReadError"
                       /\ t \in Mons => pc'[t] = "loop_err"]_vars

\* the input register "h" is being read on its own with read_input_registers,
\* after the holding register "u" was read, on the catalog that also has "c"
\* (function code 6)
BothPrimitivesUsed ==
    \E t \in Tasks :
        /\ pc[t] = "rg_io"
        /\ grp[t][1].function_code = 4
        /\ wire[t] = <<Transaction("read_input_registers", grp[t][1].address, 1, <<>>)>>
        /\ "u" \in DOMAIN _last_values
        /\ "c" \in Names

\* ---------------------------------------------------------------- C28
\* the names of the registers of a list of groups, the addresses of names
NamesIn(groups) ==
    UNION {{groups[i][j].name : j \in DOMAIN groups[i]} : i \in DOMAIN groups}
AddressOf(name) ==
    (CHOOSE r \in {config.registers[i] : i \in DOMAIN config.registers} :
        r.name = name).address
Below(earlier, later) ==
    \A a \in earlier, b \in later : AddressOf(a) < AddressOf(b)

\* C28: read_all reads the groups of the whole catalog one after another in
\* ascending address order: at every moment of the call the registers already
\* in all_results, those of the group being read and those of the groups still
\* to read make up the catalog, in this order of addresses.  When every group
\* has succeeded the map returned has exactly the catalog's names as keys; when
\* a group read fails the call ends with that error and reads no later group.
ReadAllInAddressOrder ==
    \A t \in Callers :
        last[t].op = "read_all" =>
            LET done    == DOMAIN all_results[t]
                current == NamesIn(<<grp[t]>>)
                later   == [i \in DOMAIN todo[t] |-> NamesIn(<<todo[t][i]>>)]
            IN  /\ last[t].out = "run" =>
                       /\ done \cup current \cup NamesIn(todo[t]) = Names
                       /\ Below(done \ current, current)
                       /\ \A i \in DOMAIN later :
                              /\ Below(done \cup current, later[i])
                              /\ \A j \in DOMAIN later : i < j => Below(later[i], later[j])
                       /\ Len(wire[t]) <= 1
                /\ last[t].out = "ok" =>
                       /\ DOMAIN all_results[t] = Names
                       /\ todo[t] = <<>> /\ pc[t] = "idle"
                /\ last[t].out = "raised" =>
                       /\ last[t].exc \in {"ReadError", "ConnectionError",
                                            "DataConversionError"}
                       /\ todo[t] = <<>> /\ grp[t] = <<>> /\ stack[t] = <<>>
                       /\ pc[t] = "idle"

\* read_all has returned the four registers of a catalog that is not in address
\* order, read in two groups
WholeCatalogRead ==
    \E t \in Callers :
        /\ last[t] = [op |-> "read_all", out |-> "ok", exc |-> "none"]
        /\ DOMAIN all_results[t] = {"u", "f", "c", "h"}
        /\ config.registers[1].name = "c"
        /\ \A n \in Names : Get(_last_values, n) = <<all_results[t][n]>>

\* ------------------------------------------------------------------ C29
\* the catalog's registers, and whether register reg was read less than its
\* poll_interval ago
Catalogue == {config.registers[i] : i \in DOMAIN config.registers}
ReadRecently(reg) ==
    /\ reg.name \in DOMAIN _last_read_time
    /\ now - _last_read_time[reg.name] < reg.poll_interval[1]
DueNames ==
    {reg.name : reg \in {r \in Catalogue : r.poll_interval # <<>> /\ ~ReadRecently(r)}}

\* C29, as written: whenever the monitoring loop has a read transaction in
\* flight, every register of the group read has a poll_interval and has no
\* last-read timestamp or one that is at least poll_interval old: a register
\* read less than poll_interval ago, by the loop or by a foreground read, is not
\* re-read.
NeverRereadEarly ==
    \A m \in Mons :
        pc[m] = "rg_io" =>
            \A i \in DOMAIN grp[m] :
                grp[m][i].poll_interval # <<>> /\ ~ReadRecently(grp[m][i])

\* C29, amended: the due test of an iteration selects exactly the registers
\* that have a poll_interval and, at that test, no last-read timestamp or one at
\* least poll_interval old, whoever made the last read; the iteration goes on
\* to read groups only when some register is due, and no group the loop reads
\* ever holds a register without poll_interval.
DueTestSelectsWhatIsRead ==
    [][\A m \in Mons :
          /\ (At(m, "loop_head") /\ _monitoring_active /\ pc'[m] # "loop_head") =>
                /\ NamesIn(todo'[m]) = DueNames
                /\ (pc'[m] = "loop_groups") = (DueNames # {})
          /\ \A i \in DOMAIN grp'[m] : grp'[m][i].poll_interval # <<>>]_vars

\* C29, reached: an iteration has selected a register whose last read is old
\* enough but not its neighbour, which the loop reads in the same group and a
\* foreground read has refreshed since, less than poll_interval ago
RecentlyReadRegisterSkipped ==
    \E m \in Mons, reg \in Catalogue, other \in Catalogue :
        /\ At(m, "loop_groups") /\ todo[m] # <<>>
        /\ reg.poll_interval # <<>> /\ ReadRecently(reg)
        /\ reg.name \notin NamesIn(todo[m])
        /\ other.name \in NamesIn(todo[m]) /\ other.name \in DOMAIN _last_read_time
        /\ _last_read_time[other.name] < _last_read_time[reg.name]

\* ------------------------------------------------------------------ C30
\* the names the observer was invoked for, and the registers of the results
\* whose value differs from the value cached before the read
Notified(m) == {c[1] : c \in fired[m]}
ChangedByRead(m) ==
    {n \in DOMAIN res[m] : NotEqual(Get(before[m], n), res[m][n])}

\* C30: when an invocation of the observer has raised while the results of a
\* group were processed, the polling task is neither ended nor in its error
\* handler, no foreground caller has an exception from it, and every changed
\* register of the group, also one after the register whose invocation raised,
\* has had its invocation.
CallbackErrorContained ==
    \A m \in Mons :
        callback_errors[m] # {} =>
            /\ pc[m] = "loop_groups"
            /\ \A t \in Callers : last[t].out # "raised"
            /\ \A i \in DOMAIN grp[m], j \in DOMAIN grp[m] :
                  (/\ i < j
                   /\ grp[m][i].name \in callback_errors[m]
                   /\ grp[m][j].name \in ChangedByRead(m)) =>
                      grp[m][j].name \in Notified(m)

\* C30, what holds: a raising invocation changes nothing but the log; the
\* observer is invoked for every register the loop's comparison finds changed
ContainedForComparedChanges ==
    \A m \in Mons :
        callback_errors[m] # {} =>
            /\ pc[m] = "loop_groups"
            /\ \A t \in Callers : last[t].out # "raised"
            /\ fired[m] = Changed(res[m])
            /\ callback_errors[m] \subseteq Notified(m)

\* ------------------------------------------------------------------ C31
\* the positions of a task inside _read_register_group and the connect() it calls
ReadLabels ==
    {"rg", "rg_wait", "rg_gated", "rg_tx", "rg_io", "rg_sleep",
     "connect", "connect_wait", "connect_locked", "connect_io"}
ReadExceptions == {"ReadError", "ConnectionError", "DataConversionError"}

\* C31: a scheduled group read of the polling task that ends otherwise than by
\* its results or by cancellation ends in the loop's error handler with the
\* exception logged, the task alive and the monitoring state as it was; the
\* handler's sleep is followed by the head of the loop unless the task was
\* cancelled meanwhile, and at the head of the loop a running monitoring makes
\* a further iteration.
GroupReadErrorIsolated ==
    [][\A m \in Mons :
          /\ (pc[m] \in ReadLabels /\ pc'[m] \notin ReadLabels \cup {"loop_cb"}
                /\ ~cancel_req[m]) =>
                /\ pc'[m] = "loop_err" /\ last'[m].exc \in ReadExceptions
                /\ _monitoring_active' = _monitoring_active
                /\ _monitoring_task' = _monitoring_task
          /\ (pc[m] = "loop_err" /\ pc'[m] # "loop_err") =>
                (pc'[m] = "loop_head" \/ cancel_req[m])
          /\ (At(m, "loop_head") /\ _monitoring_active) =>
                pc'[m] \in {"loop_groups", "loop_tick"}]_vars

\* C31, reached: the polling task has logged a DataConversionError of its group
\* read and sleeps in its handler while monitoring is running
ConversionErrorLogged ==
    \E m \in Mons :
        /\ pc[m] = "loop_err" /\ last[m] = Logged("DataConversionError")
        /\ _monitoring_active /\ _monitoring_task = m /\ ~cancel_req[m]

\* ------------------------------------------------------------------ C32
\* the polling task has just read register `name` and is in the spacing wait
ReadOf(name) == \E m \in Mons : pc[m] = "rg_sleep" /\ name \in DOMAIN res[m]

\* C32: while monitoring is running (it is never stopped on the reliable
\* transport), every polled register whose reads the device answers is read
\* again and again, also when the device rejects every read of the other
\* polled group.
PolledRegistersKeepBeingRead ==
    \A name \in {"r", "a"} :
        (scenario.reliable /\ _monitoring_active
            /\ name \notin scenario.rejects) ~> ReadOf(name)

\* C32, what holds: the registers keep being read unless the device rejects a
\* group at a lower address
ReadUnlessEarlierGroupFails ==
    \A name \in {"r", "a"} :
        (scenario.reliable /\ _monitoring_active /\ scenario.rejects # {"r"}
            /\ name \notin scenario.rejects) ~> ReadOf(name)

\* ------------------------------------------------------------------ C33
\* C33: when the transport's connect() has ended without a connected client,
\* the connect() of the engine raises ConnectionError: the call of a caller ends
\* with it, the polling task logs it, no transaction is issued and the client
\* held is not connected.  A read or write that finds no connected client once
\* it has the gate makes a connect attempt before anything else, and a
\* transaction is issued only on a connected client after at most one attempt.
ConnectFailureRaised ==
    [][\A t \in Tasks :
          /\ (pc[t] = "connect_io" /\ pc'[t] # "connect_io" /\ ~cancel_req[t]) =>
                IF client' = "up"
                THEN pc'[t] = RetLabel(t) /\ last'[t].out # "raised"
                ELSE /\ client' = "down"
                     /\ last'[t].exc = "ConnectionError"
                     /\ pc'[t] = IF t \in Callers THEN "idle" ELSE "loop_err"
                     /\ t \in Callers => (last'[t].out = "raised" /\ wire'[t] = wire[t])
          /\ ((At(t, "rg_gated") \/ At(t, "wr_gated")) /\ client # "up") =>
                /\ pc'[t] = "connect"
                /\ reconnects'[t] = reconnects[t] + 1
                /\ wire'[t] = wire[t]
          /\ Len(wire'[t]) > Len(wire[t]) => (client = "up" /\ reconnects[t] <= 1)]_vars

\* C33, reached: a read that found no connected client made one connect
\* attempt, which failed: the call has ended with ConnectionError and without a
\* transaction, and the client held is not connected
ReconnectFailed ==
    \E t \in Callers :
        /\ last[t] = [op |-> "read_register", out |-> "raised", exc |-> "ConnectionError"]
        /\ reconnects[t] = 1 /\ txCount[t] = 0
        /\ client = "down" /\ liveConns = 0

\* ------------------------------------------------------------------ C34
\* C34: a write_register call has at most one transaction, and exactly one when
\* it has returned; the transaction is at the register's address and carries
\* the words of the encoded value in order, by the single-register method when
\* that is one word and by the multi-register method when it is more; a call
\* that fails after its transaction was issued fails with WriteError.
OneWriteTransaction ==
    \A t \in Callers :
        last[t].op = "write_register" =>
            /\ Len(wire[t]) <= 1
            /\ last[t].out = "ok" => Len(wire[t]) = 1
            /\ (last[t].out = "raised" /\ wire[t] # <<>>) => last[t].exc = "WriteError"
            /\ wire[t] # <<>> =>
                  LET tx  == wire[t][1]
                      reg == WriteTarget(t)
                  IN  /\ tx.address = reg.address
                      /\ tx.registers = WriteRequest(reg, wargs[t][2])[2]
                      /\ tx.count = Len(tx.registers) /\ tx.count >= 1
                      /\ tx.primitive = IF tx.count = 1 THEN "write_register"
                                                       ELSE "write_registers"

\* C34, reached: the device has answered the two-word write of 6.0 to "f" with
\* an error response and the call has failed with WriteError
MultiWordWriteRefused ==
    \E t \in Callers :
        /\ last[t] = [op |-> "write_register", out |-> "raised", exc |-> "WriteError"]
        /\ wargs[t] = <<"f", Float(60)>>
        /\ wire[t] = <<Transaction("write_registers", BaseAddress + 1, 2, <<16672, 0>>)>>
        /\ "f" \notin DOMAIN _last_values

\* ------------------------------------------------------------------ C35
\* task t is queued for lock l
Queued(l, t) == \E i \in DOMAIN l.waiters : l.waiters[i] = t

\* no task waits for the rate gate while it holds the connection lock, and a
\* task waiting in stop_monitoring holds neither of them
LockOrder ==
    \A t \in Tasks :
        /\ Queued(_rate_limiter, t) => _connection_lock.holder # t
        /\ pc[t] = "stop_wait" =>
              (_rate_limiter.holder # t /\ _connection_lock.holder # t)

\* C35: no task ever waits for the rate gate with the connection lock in its
\* hands, no stop_monitoring ever waits with a lock in its hands, and every
\* call a caller has made returns (or raises) eventually.
EveryCallReturns ==
    /\ []LockOrder
    /\ \A t \in Callers : (pc[t] # "idle") ~> (pc[t] = "idle")

\* C35, reached: a caller waits in stop_monitoring for the polling task, which
\* is queued for the rate gate that the read of the other caller holds
StopWaitsForQueuedTask ==
    \E t \in Callers, u \in Callers, m \in Mons :
        /\ t # u /\ pc[t] = "stop_wait" /\ _monitoring_task = m
        /\ Queued(_rate_limiter, m) /\ _rate_limiter.holder = u

\* ------------------------------------------------------------------ C36
\* polling task m is alive and no cancellation of it is pending
Polling(m) == Alive(m) /\ ~cancel_req[m]

\* C36: at most one polling loop is alive at any time, and whenever one is
\* alive (its cancellation not being under way) _monitoring_task refers to it
\* and _monitoring_active is true, for every interleaving of start_monitoring
\* and stop_monitoring.
OnePollingLoop ==
    /\ Cardinality({m \in Mons : Polling(m)}) <= 1
    /\ \A m \in Mons : Polling(m) => (_monitoring_task = m /\ _monitoring_active)

\* ------------------------------------------------------------------ C37
\* task t is inside `async with self._rate_limiter` of a group read or of a
\* write: at one of its statements, or in the connect() called from there
InsideGate(t) ==
    \/ pc[t] \in {"rg_wait", "rg_gated", "rg_tx", "rg_io", "rg_sleep",
                  "wr_wait", "wr_gated", "wr_tx", "wr_io", "wr_sleep"}
    \/ /\ pc[t] \in {"connect", "connect_wait", "connect_locked", "connect_io"}
       /\ stack[t] # <<>>
       /\ Head(stack[t]) \in {"rg_tx", "wr_tx"}

\* C37: the rate gate is released on every exit path: it is never held by, nor
\* queued for, a task that is not inside a group read or a write (one that has
\* returned, has raised, has failed to reconnect, or was cancelled).
GateReleasedOnExit ==
    \A t \in Tasks :
        (_rate_limiter.holder = t \/ Queued(_rate_limiter, t)) => InsideGate(t)

\* C37, reached: the polling task that a stop_monitoring awaits has ended by
\* its cancellation with a transaction made and its spacing wait not completed,
\* and the gate has passed to the reader that was queued for it
GatePassedOnAfterCancellation ==
    \E t \in Callers, u \in Callers, m \in Mons :
        /\ pc[t] = "stop_wait" /\ awaiting[t] = m /\ ~Alive(m)
        /\ unspaced
        /\ pc[u] = "rg_wait" /\ _rate_limiter = [holder |-> u, waiters |-> <<>>]

\* ------------------------------------------------------------------ C38
\* this step of task u has the transport open a connection (a new client is
\* built and its connect() called)
Reopens(u) == pc[u] = "connect_locked" /\ pc'[u] = "connect_io"

\* this step of task u hands a transaction to the transport
Issues(u) == Len(wire'[u]) > Len(wire[u])

\* C38: once disconnect() has returned, no call that was under way when it
\* returned (a foreground read or write, or the polling task) opens the
\* connection again or issues a transaction; the connection stays closed until a
\* caller makes a new call.
ClosedUntilNewCall ==
    [][\A u \in stale : ~Reopens(u) /\ ~Issues(u)]_vars

OwnFunctionCode ==
    \A t \in Tasks :
        pc[t] = "rg_io" =>
            \A i \in DOMAIN grp[t] :
                wire[t][Len(wire[t])].primitive = read_primitive(grp[t][i].function_code)
====
